---- MODULE Spec2Model ----
(***************************************************************************)
(* NanoNetworkApi (src/src/nano-network-api.js): the consensus gate, the   *)
(* balance cache with its rechecks, the handlers of the runtime's          *)
(* consensus, head and mempool events, the transaction history, the        *)
(* initialization barrier with connect() and disconnect(); the transaction *)
(* builder of src/src/nano-api.ts and the send loop of src/src/NanoApi.ts  *)
(* and src/unnamed/part_005.                                               *)
(*                                                                         *)
(* The wrapper runs on one JavaScript thread.  A handler runs to its first *)
(* await without interruption; every later step of an asynchronous         *)
(* operation (the gate being passed, the runtime answering, a timer        *)
(* firing) is a separate step that other handlers can precede.             *)
(*                                                                         *)
(* Amounts: the runtime counts in satoshis (integers); the wrapper handles *)
(* coins, satoshis / 1e5.  A coin amount is kept as its whole part and its *)
(* fraction in 1e-5 units, so the arithmetic is exact (JavaScript's        *)
(* rounding of binary floating point is not modelled).                     *)
(***************************************************************************)
EXTENDS Integers, Sequences, FiniteSets

\* ------------------------------------------------------------------ bounds
MaxOps == 2          \* asynchronous calls in flight at one time
MaxGates == 1        \* 'lost' events, each creating one more gate instance
MaxBalance == 1      \* largest account balance, in satoshis
MaxStackHeight == 1  \* failed account fetches of one call
MaxTx == 2           \* transactions on the runtime's chain
MaxHeight == 2       \* blocks of the runtime's chain
MaxCalls == 4        \* calls of connect(), disconnect() and getTransactionSize()
MaxPicoCalls == 2    \* calls of connectPico() on one instance
MaxMessages == 3     \* accounts-proof messages received during one connectPico call
MaxNotifications == 3  \* head notifications fired by one instance
MaxHeadCalls == 2    \* _headChanged calls awaiting the head block at once

\* --------------------------------------------------------------- constants
SATOSHIS_PER_COIN == 100000

\* Nimiq.TransactionReceiptsMessage.RECEIPTS_MAX_COUNT, the server's page cap,
\* scaled to the size of the chain
RECEIPTS_MAX_COUNT == MaxTx

\* if (retryCounter >= 4) return: the receipts are requested at most three times
RECEIPT_TRIES == 3

Addr == {"A1", "A2"}
Tx == {"T1"}

\* the transaction the runtime can show: sender, value and fee in satoshis
TxSender(t) == "A1"
TxValue(t) == 1
TxFee(t) == 0

\* account === null (no account record); an account record has a balance >= 0
NoAccount == -1
NoTx == "none"

VARIABLES
    listening,                     \* connect() has bound the runtime listeners
    established,                   \* the runtime's consensus.established
    consensusEstablished,          \* this._consensusEstablished: the current gate instance
    resolvedGates,                 \* the gate instances whose resolver has been called
    lastConsensusEvent,            \* the most recent consensus event delivered
    accounts,                      \* the runtime's accounts: balance in satoshis, or null
    txState,                       \* the runtime's mempool: state of each transaction
    relayState,                    \* the runtime's handling of a submitted transaction
    runtimeCalls,                  \* the runtime requests issued by gated operations so far
    selfRelayedTransactionHashes,  \* this._selfRelayedTransactionHashes
    balances,                      \* this._balances: the balance cache
    ops,                           \* the asynchronous calls in flight, in the order they started
    lastNotified,                  \* per address, the value of its latest 'nimiq-balances'
    out,                           \* what the latest step started, fired and ended, in order
    history,                       \* the latest requestTransactionHistory call that returned:
                                   \* its arguments, the runtime's chain and what it returned
    sending,                       \* NanoApi.relayTransaction: the call and its send loop
    startup,                       \* the initialization barrier and connect() / disconnect()
    built,                         \* the latest transaction object built, with what was built
    pico,                          \* connectPico: this._picoChannels and the current call
    knownHead                      \* the revisions with this._knownHead: the head and its handlers

vars == <<listening, established, consensusEstablished, resolvedGates, lastConsensusEvent,
          accounts, txState, relayState, runtimeCalls, selfRelayedTransactionHashes,
          balances, ops, lastNotified, out, history, sending, startup, built,
          pico, knownHead>>

\* ------------------------------------------------------------------ amounts
SatoshisToCoins(s) == [whole |-> s \div SATOSHIS_PER_COIN, frac |-> s % SATOSHIS_PER_COIN]

CoinsAsSatoshis(c) == c.whole * SATOSHIS_PER_COIN + c.frac

CoinsAdd(a, b) == SatoshisToCoins(CoinsAsSatoshis(a) + CoinsAsSatoshis(b))

CoinsSub(a, b) == SatoshisToCoins(CoinsAsSatoshis(a) - CoinsAsSatoshis(b))

Zero == [whole |-> 0, frac |-> 0]

AccountValues == {NoAccount} \cup 0..MaxBalance

\* ------------------------------------------------------------ small helpers
RemoveAt(s, i) == [j \in 1..(Len(s) - 1) |-> IF j < i THEN s[j] ELSE s[j + 1]]

MapSet(m, S, f) == [x \in DOMAIN m \cup S |-> IF x \in S THEN f[x] ELSE m[x]]

NoCache == [a \in {} |-> Zero]

\* what a step emits: a call it starts, an event it fires, a call that ends in it
Effect(type, name, addrs, data, tx, origin, stale, quiet) ==
    [type |-> type, name |-> name, addrs |-> addrs, data |-> data, tx |-> tx,
     origin |-> origin, stale |-> stale, quiet |-> quiet]

Started(kind, addrs) == Effect("call", kind, addrs, NoCache, NoTx, "", {}, FALSE)

FireBalances(data) == Effect("fire", "nimiq-balances", {}, data, NoTx, "", {}, FALSE)

FireTransaction(event, t) == Effect("fire", event, {}, NoCache, t, "", {}, FALSE)

Fire(event) == Effect("fire", event, {}, NoCache, NoTx, "", {}, FALSE)

Ended(op) == Effect("end", op.kind, op.addrs, NoCache, op.tx, op.origin, op.superseded, op.quiet)

\* ------------------------------------------------------------------- gate
\* faulty variant: 'lost' keeps the gate instance it finds
CreateConsensusPromise_Kept == consensusEstablished

\* _createConsensusPromise(): a fresh, unresolved gate instance
CreateConsensusPromise == consensusEstablished + 1

\* faulty variant: the call does not await the gate
GateResolved_NotAwaited(g) == TRUE

\* await this._consensusEstablished, for the instance g the call captured
GateResolved(g) == g \in resolvedGates

\* --------------------------------------------------------- in-flight calls
\* kind:   "recheck" (_recheckBalances), "getBalance", "subscribeAddresses",
\*         "relay" (relayTransaction), "history" (_requestTransactionHistory)
\* origin: what called it: "subscribe", "head", "tx" or "api" (the application)
\* pc:     "gate"      awaiting the gate instance in field gate
\*         "response"  consensus.getAccounts has read the accounts (field fetched);
\*                     its answer is on the way back
\*         "backoff"   consensus.getAccounts failed, the retry timer is running
\*         "receipts"  consensus._requestTransactionReceipts is with the runtime
\* quiet:  no other call was in flight when it started, none has started and the
\*         runtime's accounts and mempool have not changed since
\* superseded: the addresses a recheck started later has written meanwhile
NewOp(kind, origin, addrs, tx, inFlight) ==
    [kind |-> kind, origin |-> origin, addrs |-> addrs, tx |-> tx,
     pc |-> IF kind \in {"recheck", "getBalance"} /\ addrs = {} THEN "response" ELSE "gate",
     gate |-> consensusEstablished,
     stackHeight |-> 0,
     fetched |-> [a \in {} |-> NoAccount],
     quiet |-> inFlight = <<>>,
     superseded |-> {}]

\* a call starts, or the runtime's accounts or mempool change
Disturb(s) == [i \in DOMAIN s |-> [s[i] EXCEPT !.quiet = FALSE]]

\* ------------------------------------------------ balances (pure functions)
RECURSIVE SumCoins(_)
SumCoins(T) ==
    IF T = {} THEN Zero
    ELSE LET t == CHOOSE x \in T : TRUE
         IN CoinsAdd(SumCoins(T \ {t}), SatoshisToCoins(TxValue(t) + TxFee(t)))

\* faulty variant: a mined transaction still counts as pending
GetPendingAmount_KeepsMined(pool, a) ==
    SumCoins({t \in Tx : pool[t] \in {"pending", "mined"} /\ TxSender(t) = a})

\* mempool.getPendingTransactions(address), reduced to the sum of value + fee
GetPendingAmount(pool, a) == SumCoins({t \in Tx : pool[t] = "pending" /\ TxSender(t) = a})

\* faulty variant: the balance is converted without the test for an account
AccountBalance_NoNullCheck(account) == SatoshisToCoins(account)

\* account ? satoshisToCoins(account.balance) : 0
AccountBalance(account) == IF account = NoAccount THEN Zero ELSE SatoshisToCoins(account)

GetBalances(fetched) == [a \in DOMAIN fetched |-> AccountBalance(fetched[a])]

\* balance -= this._getPendingAmount(address)
AdjustedBalances(fetched, pool) ==
    [a \in DOMAIN fetched |-> CoinsSub(GetBalances(fetched)[a], GetPendingAmount(pool, a))]

\* faulty variant: no address is dropped as unchanged
RecheckChanged_All(cache, adj) == DOMAIN adj

\* the addresses the loop of _recheckBalances does not delete from its map
RecheckChanged(cache, adj) == {a \in DOMAIN adj : a \notin DOMAIN cache \/ cache[a] # adj[a]}

\* faulty variant: an entry the cache holds is not written again
RecheckedCache_FirstOnly(cache, adj) == MapSet(cache, DOMAIN adj \ DOMAIN cache, adj)

\* this._balances after the loop of _recheckBalances
RecheckedCache(cache, adj) == MapSet(cache, RecheckChanged(cache, adj), adj)

RECURSIVE FireEach(_, _)
FireEach(S, adj) ==
    IF S = {} THEN <<>>
    ELSE LET a == CHOOSE x \in S : TRUE
         IN <<FireBalances([y \in {a} |-> adj[a]])>> \o FireEach(S \ {a}, adj)

\* faulty variant: the notification is fired inside the loop, once per changed address
OnBalancesChanged_PerAddress(cache, adj) == FireEach(RecheckChanged(cache, adj), adj)

\* if (balances.size) this._onBalancesChanged(balances)
OnBalancesChanged(cache, adj) ==
    LET changed == RecheckChanged(cache, adj)
    IN IF changed = {} THEN <<>>
       ELSE <<FireBalances([a \in changed |-> adj[a]])>>

\* the balances the fires of a step carry, the latest per address
Notified(prev, fires) ==
    LET idx == {i \in DOMAIN fires : fires[i].name = "nimiq-balances"}
        has(a) == {i \in idx : a \in DOMAIN fires[i].data}
        top(a) == CHOOSE i \in has(a) : \A j \in has(a) : j <= i
    IN [a \in DOMAIN prev \cup {x \in Addr : has(x) # {}} |->
            IF has(a) # {} THEN fires[top(a)].data[a] ELSE prev[a]]

\* ------------------------------------- transaction history (pure functions)
\* A transaction hash is a number of 1..MaxTx; a block is named by its height
\* and its block hash is that number; NoBlock is the hash of a block that is
\* not on the chain (any more).
Hash == 1..MaxTx

Heights == 1..MaxHeight

NoBlock == 0

\* knownReceipts.get(address) has no entry for the hash
NotKnown == -1

\* the runtime's chain: per transaction, the block that holds it (NoBlock: none)
\* and the addresses it involves as sender or recipient
Chains ==
    {c \in [Hash -> [height : {NoBlock} \cup Heights, parties : SUBSET Addr \ {{}}]] :
        \A h \in Hash : c[h].height = NoBlock => c[h].parties = Addr}

\* the hashes the caller can know: those of the chain and one of a transaction
\* that is on the chain no more
KnownHash == 1..(MaxTx + 1)

\* the caller's knownReceipts: per address, per transaction hash, the block hash
KnownReceipts ==
    [Addr -> {k \in [KnownHash -> {NotKnown, NoBlock} \cup Heights] :
                 k[MaxTx + 1] \in {NotKnown, NoBlock}}]

RECURSIVE AscSeq(_)
AscSeq(S) ==
    IF S = {} THEN <<>>
    ELSE LET m == CHOOSE x \in S : \A y \in S : x <= y
         IN <<m>> \o AscSeq(S \ {m})

RECURSIVE Flatten(_)
Flatten(ss) == IF ss = <<>> THEN <<>> ELSE Head(ss) \o Flatten(Tail(ss))

Reverse(s) == [i \in 1..Len(s) |-> s[Len(s) + 1 - i]]

\* Array.prototype.sort by blockHeight (stable), descending or ascending
RECURSIVE SortByHeight(_, _)
SortByHeight(s, descending) ==
    IF s = <<>> THEN <<>>
    ELSE LET init == SortByHeight(SubSeq(s, 1, Len(s) - 1), descending)
             x == s[Len(s)]
             stays(y) == IF descending THEN y.blockHeight >= x.blockHeight
                         ELSE y.blockHeight <= x.blockHeight
             k == Cardinality({i \in DOMAIN init : stays(init[i])})
         IN SubSeq(init, 1, k) \o <<x>> \o SubSeq(init, k + 1, Len(init))

\* consensus._requestTransactionReceipts(address): the receipts of the
\* transactions of the address, at most RECEIPTS_MAX_COUNT of them
ServerReceipts(chain, a) ==
    LET hs == AscSeq({h \in Hash : chain[h].height # NoBlock /\ a \in chain[h].parties})
        all == [i \in DOMAIN hs |-> [transactionHash |-> hs[i],
                                     blockHash |-> chain[hs[i]].height,
                                     blockHeight |-> chain[hs[i]].height]]
    IN SubSeq(all, 1, IF Len(all) < RECEIPTS_MAX_COUNT THEN Len(all) ELSE RECEIPTS_MAX_COUNT)

\* faulty variant: the request is repeated until the runtime answers
ReceiptsAttempts_Unbounded(fails) == fails + 1

\* the calls of _requestTransactionReceipts when the first `fails` of them reject
ReceiptsAttempts(fails) == IF fails >= RECEIPT_TRIES THEN RECEIPT_TRIES ELSE fails + 1

\* [...knownReceipts.keys()]
KnownTxHashes(known) == {h \in DOMAIN known : known[h] # NotKnown}

\* faulty variant: the removed transactions are computed whatever the length
RemovedTxHashes_Always(receipts, known) ==
    AscSeq({h \in KnownTxHashes(known) :
               \A i \in DOMAIN receipts : receipts[i].transactionHash # h})

\* 2a. removedTxHashes
RemovedTxHashes(receipts, known) ==
    IF Len(receipts) = RECEIPTS_MAX_COUNT THEN <<>>
    ELSE AscSeq({h \in KnownTxHashes(known) :
                    \A i \in DOMAIN receipts : receipts[i].transactionHash # h})

\* faulty variant: a receipt with a known hash is dropped whatever its block
ReceiptKept_IgnoresBlockHash(r, known, fromHeight) ==
    /\ ~(r.blockHeight < fromHeight)
    /\ r.transactionHash \notin KnownTxHashes(known)

\* 2b. the test of receipts.filter
ReceiptKept(r, known, fromHeight) ==
    /\ ~(r.blockHeight < fromHeight)
    /\ r.transactionHash \in KnownTxHashes(known) => r.blockHash # known[r.transactionHash]

\* 2b. the unknown receipts, most recent first
FilterReceipts(receipts, known, fromHeight) ==
    LET keep(r) == ReceiptKept(r, known, fromHeight)
    IN SortByHeight(SelectSeq(receipts, keep), TRUE)

\* 3. the receipts for which a block is requested: the first of each run of
\* receipts with one block hash
BlockRequests(receipts) ==
    LET first(i) == i = 1 \/ receipts[i].blockHash # receipts[i - 1].blockHash
        idx == AscSeq({i \in DOMAIN receipts : first(i)})
    IN [j \in DOMAIN idx |-> receipts[idx[j]]]

\* consensus._requestTransactionsProof([address], block), as {transaction, header}
TransactionsProof(chain, a, b) ==
    LET hs == AscSeq({h \in Hash : chain[h].height = b /\ a \in chain[h].parties})
    IN [i \in DOMAIN hs |-> [hash |-> hs[i], blockHeight |-> b, blockHash |-> b]]

\* faulty variant: a rejected block proof request leaves no trace
UnresolvedReceipts_Dropped(requests, failedBlocks) == <<>>

\* .catch(e => { unresolvedReceipts.push(receipt) ... }), unresolvedReceipts.reverse()
UnresolvedReceipts(requests, failedBlocks) ==
    LET rejected(r) == r.blockHash \in failedBlocks
    IN Reverse(SelectSeq(requests, rejected))

\* what _requestTransactionHistory returns for one address, and what it has
\* requested of the runtime (the number of receipt requests, the receipts whose
\* block and whose transactions proof it requested); fails: the receipt requests
\* the runtime rejects before it answers one, failedBlocks: the blocks whose proof
\* request rejects, failedProofs: the blocks whose transactions proof request
\* rejects
AddressHistory(chain, a, known, fromHeight, fails, failedBlocks, failedProofs) ==
    IF fails >= RECEIPT_TRIES
    THEN [transactions |-> <<>>, removedTxHashes |-> <<>>, unresolvedReceipts |-> <<>>,
          receiptRequests |-> ReceiptsAttempts(fails), blockRequests |-> <<>>,
          proofRequests |-> <<>>]
    ELSE LET fetched == ServerReceipts(chain, a)
             receipts == FilterReceipts(fetched, known, fromHeight)
             requests == BlockRequests(receipts)
             resolved(r) == r.blockHash \notin failedBlocks
             proved(r) == r.blockHash \notin failedProofs
             blocks == SelectSeq(SelectSeq(requests, resolved), proved)
             proofs == [i \in DOMAIN blocks |-> TransactionsProof(chain, a, blocks[i].blockHash)]
         IN [transactions |-> SortByHeight(Flatten(Reverse(proofs)), FALSE),
             removedTxHashes |-> RemovedTxHashes(fetched, known),
             unresolvedReceipts |-> UnresolvedReceipts(requests, failedBlocks),
             receiptRequests |-> ReceiptsAttempts(fails),
             blockRequests |-> requests,
             proofRequests |-> SelectSeq(requests, resolved)]

\* faulty variant: no duplicate is removed
RemoveDuplicates_None(txs) == txs

\* txs.filter((tx, index) => _txHashes.indexOf(tx.hash) === index)
RemoveDuplicates(txs) ==
    LET indexOf(h) == CHOOSE i \in DOMAIN txs :
                          txs[i].hash = h /\ \A j \in DOMAIN txs : txs[j].hash = h => i <= j
        idx == AscSeq({i \in DOMAIN txs : indexOf(txs[i].hash) = i})
    IN [j \in DOMAIN idx |-> txs[idx[j]]]

\* what requestTransactionHistory(addresses, knownReceipts, fromHeight) returns
TransactionHistory(chain, addresses, known, fromHeight, fails, failedBlocks, failedProofs) ==
    LET results == [i \in DOMAIN addresses |->
                       AddressHistory(chain, addresses[i], known[addresses[i]], fromHeight,
                                      fails[addresses[i]], failedBlocks, failedProofs)]
    IN [newTransactions |->
            RemoveDuplicates(Flatten([i \in DOMAIN results |-> results[i].transactions])),
        removedTransactions |->
            Flatten([i \in DOMAIN results |-> results[i].removedTxHashes]),
        unresolvedTransactions |->
            Flatten([i \in DOMAIN results |-> results[i].unresolvedReceipts])]

NoResult == [newTransactions |-> <<>>, removedTransactions |-> <<>>,
             unresolvedTransactions |-> <<>>]

\* no requestTransactionHistory call has returned
NoHistory ==
    [returned |-> FALSE,
     chain |-> [h \in Hash |-> [height |-> NoBlock, parties |-> Addr]],
     addresses |-> <<>>,
     known |-> [a \in Addr |-> [h \in KnownHash |-> NotKnown]],
     fromHeight |-> 0,
     fails |-> [a \in Addr |-> 0],
     failedBlocks |-> {},
     failedProofs |-> {},
     requested |-> <<>>,
     result |-> NoResult]

\* ----------------------------------------------------------------- Init
\* no relayTransaction call of NanoApi has been made
NoSending ==
    [revision |-> "none", pc |-> "idle", tx |-> NoTx, mustWaitBeforeRelay |-> FALSE,
     isTxSent |-> FALSE, attempts |-> 0, handed |-> 0, reported |-> <<>>]

\* the wrapper as the constructor leaves it: the runtime's script is being
\* imported, no consensus object exists, this._shouldConnect is true
NoStartup ==
    [init |-> "importing", ready |-> 0, fail |-> 0, shouldConnect |-> TRUE,
     created |-> 0, consensus |-> 0, connected |-> {}, calls |-> <<>>,
     last |-> "none", proceeded |-> {}, made |-> 0]

\* the addresses in their user-friendly form, and the keys that sign for them
Friendly == {"NQ A1", "NQ A2"}

PubKeys == {"K1", "K2"}

\* Nimiq.Address.fromUserFriendlyAddress(str)
FromUserFriendlyAddress(str) == IF str = "NQ A1" THEN "A1" ELSE "A2"

\* address.toUserFriendlyAddress()
ToUserFriendlyAddress(a) == IF a = "A1" THEN "NQ A1" ELSE "NQ A2"

\* publicKey.toAddress()
ToAddress(key) == IF key = "K1" THEN "A1" ELSE "A2"

\* txObj.extraData: undefined, a string or a byte array, of some length
NoData == [type |-> "undefined", length |-> 0]

ExtraData == {NoData} \cup [type : {"string", "bytes"}, length : 0..1]

\* Utf8Tools.stringToUtf8ByteArray(str): one byte or more for every character
StringToUtf8ByteArray(d) == [type |-> "bytes", length |-> 2 * d.length]

\* the decimal digits of a number, as String(n) writes them
RECURSIVE Digits(_)
Digits(n) == IF n < 10 THEN <<n>> ELSE Append(Digits(n \div 10), n % 10)

RECURSIVE ParseDigits(_)
ParseDigits(d) ==
    IF d = <<>> THEN 0 ELSE 10 * ParseDigits(SubSeq(d, 1, Len(d) - 1)) + d[Len(d)]

\* parseInt(n): the number is written out and its leading digits are read
ParseInt(n) == ParseDigits(Digits(n))

ValidityStartHeights == {0, MaxHeight, 10 * MaxHeight + 1}

\* the transaction objects an application passes in; isVesting may be missing
TransactionObjects ==
    [sender : Friendly, senderPubKey : PubKeys, recipient : Friendly,
     value : {SatoshisToCoins(v) : v \in 0..MaxBalance},
     fee : {SatoshisToCoins(v) : v \in 0..MaxBalance},
     validityStartHeight : ValidityStartHeights,
     extraData : ExtraData, isVesting : {"undefined", "false", "true"}]

NoTxObj ==
    [sender |-> "NQ A1", senderPubKey |-> "K1", recipient |-> "NQ A1", value |-> Zero,
     fee |-> Zero, validityStartHeight |-> 0, extraData |-> NoData,
     isVesting |-> "undefined"]

NoTransaction ==
    [format |-> "none", sender |-> "A1", senderType |-> "BASIC", recipient |-> "A1",
     recipientType |-> "BASIC", value |-> 0, fee |-> 0, validityStartHeight |-> 0,
     data |-> NoData]

NoBuilt == [pc |-> "none", input |-> NoTxObj, tx |-> NoTransaction]

\* the locals of a connectPico call before it has started; this._picoChannels
\* (channels) belongs to the instance and is kept from call to call
NoPicoCall(channels, calls) ==
    [picoChannels |-> channels, calls |-> calls, pc |-> "none", addresses |-> <<>>,
     picoHeads |-> <<>>, currentHead |-> 0, adoptedAfter |-> 0,
     stored |-> {}, picoBalances |-> [a \in Addr |-> Zero],
     hasBalanceConsensus |-> TRUE, receivedBalanceMsgCount |-> 0,
     messages |-> 0, reported |-> [a \in Addr |-> {}],
     resolved |-> FALSE, resolvedWith |-> "none", connects |-> 0, timer |-> "none"]

NoPico == NoPicoCall(0, 0)

\* a block header, as far as _headChanged looks at it: its height, and which of the
\* competing blocks of that height it is (equals() compares the whole header)
Headers == [height : 1..MaxHeight, branch : 0..1]

NoHeader == [height |-> 0, branch |-> 0]

\* the revisions that keep this._knownHead
HeadRevisions == {"part_006", "NanoApi.ts"}

\* _knownHead = null; no 'nimiq-head-change' fired, no _headChanged call awaiting
\* the client's head block
KnownHeadOf(revision) ==
    [revision |-> revision, knownHead |-> NoHeader, calls |-> 0,
     handled |-> NoHeader, overtaken |-> FALSE, notified |-> <<>>]

NoKnownHead == KnownHeadOf("part_006")

Init ==
    /\ listening = FALSE
    /\ established = FALSE
    /\ consensusEstablished = 0
    /\ resolvedGates = {}
    /\ lastConsensusEvent = "none"
    /\ accounts \in [Addr -> AccountValues]
    /\ txState = [t \in Tx |-> "none"]
    /\ relayState = [t \in Tx |-> "no"]
    /\ runtimeCalls = {}
    /\ selfRelayedTransactionHashes = {}
    /\ balances = NoCache
    /\ ops = <<>>
    /\ lastNotified = NoCache
    /\ out = <<>>
    /\ history = NoHistory
    /\ sending = NoSending
    /\ startup = NoStartup
    /\ built = NoBuilt
    /\ pico = NoPico
    /\ knownHead = NoKnownHead

\* ---------------------------------------------------- the wrapper's calls
\* _recheckBalances(addresses) up to its first await: the call is in flight
RecheckBalances(inFlight, origin, addrs) ==
    Disturb(inFlight) \o <<NewOp("recheck", origin, addrs, NoTx, inFlight)>>

\* connect(), from the creation of the consensus object on
Connect ==
    /\ ~listening
    /\ listening' = TRUE
    /\ out' = <<>>
    /\ UNCHANGED <<history, sending, startup, built, pico, knownHead>>
    /\ UNCHANGED <<established, consensusEstablished, resolvedGates, lastConsensusEvent,
                   accounts, txState, relayState, runtimeCalls,
                   selfRelayedTransactionHashes, balances, ops, lastNotified>>

\* subscribe(addresses)
Subscribe(S) ==
    /\ Len(ops) + 2 <= MaxOps
    /\ LET sub == NewOp("subscribeAddresses", "subscribe", S, NoTx, ops)
       IN ops' = RecheckBalances(Disturb(ops) \o <<sub>>, "subscribe", S)
    /\ out' = <<Started("subscribeAddresses", S), Started("recheck", S)>>
    /\ UNCHANGED <<history, sending, startup, built, pico, knownHead>>
    /\ UNCHANGED <<listening, established, consensusEstablished, resolvedGates,
                   lastConsensusEvent, accounts, txState, relayState, runtimeCalls,
                   selfRelayedTransactionHashes, balances, lastNotified>>

\* getBalance(addresses) up to its first await
GetBalance(S) ==
    /\ Len(ops) < MaxOps
    /\ ops' = Disturb(ops) \o <<NewOp("getBalance", "api", S, NoTx, ops)>>
    /\ out' = <<Started("getBalance", S)>>
    /\ UNCHANGED <<history, sending, startup, built, pico, knownHead>>
    /\ UNCHANGED <<listening, established, consensusEstablished, resolvedGates,
                   lastConsensusEvent, accounts, txState, relayState, runtimeCalls,
                   selfRelayedTransactionHashes, balances, lastNotified>>

\* relayTransaction(txObj) up to its first await
RelayTransaction(t) ==
    /\ Len(ops) < MaxOps
    /\ relayState[t] = "no" /\ txState[t] = "none"
    /\ \A i \in DOMAIN ops : ops[i].tx # t
    /\ ops' = Disturb(ops) \o <<NewOp("relay", "api", {}, t, ops)>>
    /\ out' = <<Started("relay", {})>>
    /\ UNCHANGED <<history, sending, startup, built, pico, knownHead>>
    /\ UNCHANGED <<listening, established, consensusEstablished, resolvedGates,
                   lastConsensusEvent, accounts, txState, relayState, runtimeCalls,
                   selfRelayedTransactionHashes, balances, lastNotified>>

\* _requestTransactionHistory(address) up to its first await
RequestTransactionHistory(a) ==
    /\ Len(ops) < MaxOps
    /\ ops' = Disturb(ops) \o <<NewOp("history", "api", {a}, NoTx, ops)>>
    /\ out' = <<Started("history", {a})>>
    /\ UNCHANGED <<history, sending, startup, built, pico, knownHead>>
    /\ UNCHANGED <<listening, established, consensusEstablished, resolvedGates,
                   lastConsensusEvent, accounts, txState, relayState, runtimeCalls,
                   selfRelayedTransactionHashes, balances, lastNotified>>

\* requestTransactionHistory(addresses, knownReceipts, fromHeight) from its call
\* to its return, the gate being resolved: the runtime answers from its chain
RequestTransactionHistoryReturns(chain, addresses, known, fromHeight, fails, failedBlocks, failedProofs) ==
    /\ listening
    /\ GateResolved(consensusEstablished)
    /\ history' = [returned |-> TRUE, chain |-> chain, addresses |-> addresses,
                   known |-> known, fromHeight |-> fromHeight, fails |-> fails,
                   failedBlocks |-> failedBlocks, failedProofs |-> failedProofs,
                   requested |-> [i \in DOMAIN addresses |->
                       LET r == AddressHistory(chain, addresses[i], known[addresses[i]],
                                               fromHeight, fails[addresses[i]],
                                               failedBlocks, failedProofs)
                       IN [receipts |-> r.receiptRequests, blocks |-> r.blockRequests,
                           proofs |-> r.proofRequests]],
                   result |-> TransactionHistory(chain, addresses, known, fromHeight,
                                                 fails, failedBlocks, failedProofs)]
    /\ runtimeCalls' = runtimeCalls \cup {"requestTransactionReceipts"}
    /\ out' = <<>>
    /\ UNCHANGED <<listening, established, consensusEstablished, resolvedGates,
                   lastConsensusEvent, accounts, txState, relayState,
                   selfRelayedTransactionHashes, balances, ops, lastNotified>>
    /\ UNCHANGED <<sending, startup, built, pico, knownHead>>

\* ------------------------------------------------ the runtime's event handlers
\* faulty variant: the head change is handled whatever the consensus state
HeadChangedProceeds_Always(est) == TRUE

\* if (!this._consensus.established) return
HeadChangedProceeds(est) == est

\* _headChanged(header): the calls in flight after it
HeadChangedOps(inFlight, est, cache) ==
    IF HeadChangedProceeds(est)
    THEN RecheckBalances(inFlight, "head", DOMAIN cache)
    ELSE inFlight

\* _headChanged(header): what it starts and fires, in order
HeadChangedOut(est, cache) ==
    IF HeadChangedProceeds(est)
    THEN <<Started("recheck", DOMAIN cache), Fire("nimiq-head-change")>>
    ELSE <<>>

\* this._balances.has(senderAddr)
SenderTracked(cache, sender) == sender \in DOMAIN cache

\* a transaction handler: the calls in flight after it
TransactionOps(inFlight, cache, sender) ==
    IF SenderTracked(cache, sender)
    THEN RecheckBalances(inFlight, "tx", {sender})
    ELSE inFlight

\* faulty variant: the notification is fired before the recheck is started
TransactionOut_FireFirst(cache, sender, event, t) ==
    <<FireTransaction(event, t)>>
        \o (IF SenderTracked(cache, sender) THEN <<Started("recheck", {sender})>> ELSE <<>>)

\* a transaction handler: what it starts and fires, in order
TransactionOut(cache, sender, event, t) ==
    (IF SenderTracked(cache, sender) THEN <<Started("recheck", {sender})>> ELSE <<>>)
        \o <<FireTransaction(event, t)>>

\* 'established' -> __consensusEstablished()
ConsensusEstablishedEvent ==
    /\ listening
    /\ Len(ops) < MaxOps
    /\ established' = TRUE
    /\ resolvedGates' = resolvedGates \cup {consensusEstablished}
    /\ lastConsensusEvent' = "established"
    /\ ops' = HeadChangedOps(ops, TRUE, balances)
    /\ out' = HeadChangedOut(TRUE, balances) \o <<Fire("nimiq-consensus-established")>>
    /\ UNCHANGED <<history, sending, startup, built, pico, knownHead>>
    /\ UNCHANGED <<listening, consensusEstablished, accounts, txState, relayState,
                   runtimeCalls, selfRelayedTransactionHashes, balances, lastNotified>>

\* 'lost' -> _consensusLost()
ConsensusLostEvent ==
    /\ listening
    /\ consensusEstablished < MaxGates
    /\ established' = FALSE
    /\ consensusEstablished' = CreateConsensusPromise
    /\ lastConsensusEvent' = "lost"
    /\ out' = <<Fire("nimiq-consensus-lost")>>
    /\ UNCHANGED <<history, sending, startup, built, pico, knownHead>>
    /\ UNCHANGED <<listening, resolvedGates, accounts, txState, relayState, runtimeCalls,
                   selfRelayedTransactionHashes, balances, ops, lastNotified>>

\* the chain gets a new head, in which the account of a is v;
\* 'head-changed' -> _headChanged(block.header)
HeadChangedEvent(a, v) ==
    /\ listening
    /\ established => Len(ops) < MaxOps
    /\ accounts' = [accounts EXCEPT ![a] = v]
    /\ ops' = HeadChangedOps(IF accounts[a] = v THEN ops ELSE Disturb(ops),
                             established, balances)
    /\ out' = HeadChangedOut(established, balances)
    /\ UNCHANGED <<history, sending, startup, built, pico, knownHead>>
    /\ UNCHANGED <<listening, established, consensusEstablished, resolvedGates,
                   lastConsensusEvent, txState, relayState, runtimeCalls,
                   selfRelayedTransactionHashes, balances, lastNotified>>

\* the mempool takes a transaction; 'transaction-added' -> _transactionAdded(tx)
TransactionAddedEvent(t) ==
    /\ listening
    /\ txState[t] = "none"
    /\ (t \notin selfRelayedTransactionHashes /\ SenderTracked(balances, TxSender(t)))
            => Len(ops) < MaxOps
    /\ txState' = [txState EXCEPT ![t] = "pending"]
    /\ IF t \in selfRelayedTransactionHashes
       THEN /\ ops' = Disturb(ops)
            /\ out' = <<>>
       ELSE /\ ops' = TransactionOps(Disturb(ops), balances, TxSender(t))
            /\ out' = TransactionOut(balances, TxSender(t), "nimiq-transaction-pending", t)
    /\ UNCHANGED <<history, sending, startup, built, pico, knownHead>>
    /\ UNCHANGED <<listening, established, consensusEstablished, resolvedGates,
                   lastConsensusEvent, accounts, relayState, runtimeCalls,
                   selfRelayedTransactionHashes, balances, lastNotified>>

\* a pending transaction leaves the mempool unmined;
\* 'transaction-expired' -> _transactionExpired(tx)
TransactionExpiredEvent(t) ==
    /\ listening
    /\ txState[t] = "pending"
    /\ SenderTracked(balances, TxSender(t)) => Len(ops) < MaxOps
    /\ txState' = [txState EXCEPT ![t] = "expired"]
    /\ ops' = TransactionOps(Disturb(ops), balances, TxSender(t))
    /\ out' = TransactionOut(balances, TxSender(t), "nimiq-transaction-expired", t)
    /\ UNCHANGED <<history, sending, startup, built, pico, knownHead>>
    /\ UNCHANGED <<listening, established, consensusEstablished, resolvedGates,
                   lastConsensusEvent, accounts, relayState, runtimeCalls,
                   selfRelayedTransactionHashes, balances, lastNotified>>

\* a pending transaction is included in a block, which debits its sender;
\* 'transaction-mined' -> _transactionMined(tx, header)
TransactionMinedEvent(t) ==
    /\ listening
    /\ txState[t] = "pending"
    /\ accounts[TxSender(t)] >= TxValue(t) + TxFee(t)
    /\ SenderTracked(balances, TxSender(t)) => Len(ops) < MaxOps
    /\ txState' = [txState EXCEPT ![t] = "mined"]
    /\ accounts' = [accounts EXCEPT ![TxSender(t)] = @ - (TxValue(t) + TxFee(t))]
    /\ ops' = TransactionOps(Disturb(ops), balances, TxSender(t))
    /\ out' = TransactionOut(balances, TxSender(t), "nimiq-transaction-mined", t)
    /\ UNCHANGED <<history, sending, startup, built, pico, knownHead>>
    /\ UNCHANGED <<listening, established, consensusEstablished, resolvedGates,
                   lastConsensusEvent, relayState, runtimeCalls,
                   selfRelayedTransactionHashes, balances, lastNotified>>

\* the runtime has sent a submitted transaction to its peers;
\* 'transaction-relayed' -> _transactionRelayed(tx)
TransactionRelayedEvent(t) ==
    /\ listening
    /\ relayState[t] = "submitted"
    /\ SenderTracked(balances, TxSender(t)) => Len(ops) < MaxOps
    /\ relayState' = [relayState EXCEPT ![t] = "relayed"]
    /\ ops' = TransactionOps(ops, balances, TxSender(t))
    /\ out' = TransactionOut(balances, TxSender(t), "nimiq-transaction-relayed", t)
    /\ UNCHANGED <<history, sending, startup, built, pico, knownHead>>
    /\ UNCHANGED <<listening, established, consensusEstablished, resolvedGates,
                   lastConsensusEvent, accounts, txState, runtimeCalls,
                   selfRelayedTransactionHashes, balances, lastNotified>>

\* ------------------------------------------- the steps of the calls in flight
\* _getAccounts: the awaited gate is resolved, consensus.getAccounts is called
\* and the runtime reads the accounts for its answer
GetAccounts(i) ==
    /\ ops[i].kind \in {"recheck", "getBalance"}
    /\ ops[i].pc = "gate"
    /\ GateResolved(ops[i].gate)
    /\ ops' = [ops EXCEPT ![i].pc = "response",
                          ![i].fetched = [a \in ops[i].addrs |-> accounts[a]]]
    /\ runtimeCalls' = runtimeCalls \cup {"getAccounts"}
    /\ out' = <<>>
    /\ UNCHANGED <<history, sending, startup, built, pico, knownHead>>
    /\ UNCHANGED <<listening, established, consensusEstablished, resolvedGates,
                   lastConsensusEvent, accounts, txState, relayState,
                   selfRelayedTransactionHashes, balances, lastNotified>>

\* _getAccounts: the awaited gate is resolved, consensus.getAccounts is called
\* and rejects; the retry timer is set
GetAccountsFailure(i) ==
    /\ ops[i].kind \in {"recheck", "getBalance"}
    /\ ops[i].pc = "gate"
    /\ GateResolved(ops[i].gate)
    /\ ops[i].stackHeight < MaxStackHeight
    /\ ops' = [ops EXCEPT ![i].pc = "backoff", ![i].stackHeight = @ + 1]
    /\ runtimeCalls' = runtimeCalls \cup {"getAccounts"}
    /\ out' = <<>>
    /\ UNCHANGED <<history, sending, startup, built, pico, knownHead>>
    /\ UNCHANGED <<listening, established, consensusEstablished, resolvedGates,
                   lastConsensusEvent, accounts, txState, relayState,
                   selfRelayedTransactionHashes, balances, lastNotified>>

\* _getAccounts: consensus.getAccounts rejects again in a call that has been
\* retried MaxStackHeight times or more (stackHeight counts up to MaxStackHeight)
GetAccountsFailureAgain(i) ==
    /\ ops[i].kind \in {"recheck", "getBalance"}
    /\ ops[i].pc = "gate"
    /\ GateResolved(ops[i].gate)
    /\ ops[i].stackHeight = MaxStackHeight
    /\ ops' = [ops EXCEPT ![i].pc = "backoff"]
    /\ runtimeCalls' = runtimeCalls \cup {"getAccounts"}
    /\ out' = <<>>
    /\ UNCHANGED <<history, sending, startup, built, pico, knownHead>>
    /\ UNCHANGED <<listening, established, consensusEstablished, resolvedGates,
                   lastConsensusEvent, accounts, txState, relayState,
                   selfRelayedTransactionHashes, balances, lastNotified>>

\* faulty variant: the retry goes on with the gate instance the failed try awaited
RetryGate_Kept(op) == op.gate

\* the retry is a new call of _getAccounts: await this._consensusEstablished reads
\* the gate instance of the moment
RetryGate(op) == consensusEstablished

\* _getAccounts: the timer fires and _getAccounts is called again
GetAccountsRetry(i) ==
    /\ ops[i].pc = "backoff"
    /\ ops' = [ops EXCEPT ![i].pc = "gate", ![i].gate = RetryGate(ops[i])]
    /\ out' = <<>>
    /\ UNCHANGED <<history, sending, startup, built, pico, knownHead>>
    /\ UNCHANGED <<listening, established, consensusEstablished, resolvedGates,
                   lastConsensusEvent, accounts, txState, relayState, runtimeCalls,
                   selfRelayedTransactionHashes, balances, lastNotified>>

\* the calls in flight after recheck i has ended having written the entries W:
\* a recheck on one of them that started earlier is superseded by it
AfterRecheck(s, i, W) ==
    RemoveAt([j \in DOMAIN s |->
                 IF j < i /\ s[j].kind = "recheck"
                 THEN [s[j] EXCEPT !.superseded = @ \cup (W \cap s[j].addrs)]
                 ELSE s[j]], i)

\* _recheckBalances from the answer of _getBalances to its end
RecheckBalancesDone(i) ==
    /\ ops[i].kind = "recheck"
    /\ ops[i].pc = "response"
    /\ LET adj == AdjustedBalances(ops[i].fetched, txState)
           fires == OnBalancesChanged(balances, adj)
       IN /\ balances' = RecheckedCache(balances, adj)
          /\ lastNotified' = Notified(lastNotified, fires)
          /\ ops' = AfterRecheck(ops, i, RecheckChanged(balances, adj))
          /\ out' = fires \o <<Ended(ops[i])>>
    /\ UNCHANGED <<history, sending, startup, built, pico, knownHead>>
    /\ UNCHANGED <<listening, established, consensusEstablished, resolvedGates,
                   lastConsensusEvent, accounts, txState, relayState, runtimeCalls,
                   selfRelayedTransactionHashes>>

\* getBalance from the answer of _getBalances to its end
GetBalanceDone(i) ==
    /\ ops[i].kind = "getBalance"
    /\ ops[i].pc = "response"
    /\ balances' = MapSet(balances, ops[i].addrs, GetBalances(ops[i].fetched))
    /\ ops' = RemoveAt(ops, i)
    /\ out' = <<Ended(ops[i])>>
    /\ UNCHANGED <<history, sending, startup, built, pico, knownHead>>
    /\ UNCHANGED <<listening, established, consensusEstablished, resolvedGates,
                   lastConsensusEvent, accounts, txState, relayState, runtimeCalls,
                   selfRelayedTransactionHashes, lastNotified>>

\* _subscribeAddresses after its await
SubscribeAccounts(i) ==
    /\ ops[i].kind = "subscribeAddresses"
    /\ ops[i].pc = "gate"
    /\ GateResolved(ops[i].gate)
    /\ runtimeCalls' = runtimeCalls \cup {"subscribeAccounts"}
    /\ ops' = RemoveAt(ops, i)
    /\ out' = <<>>
    /\ UNCHANGED <<history, sending, startup, built, pico, knownHead>>
    /\ UNCHANGED <<listening, established, consensusEstablished, resolvedGates,
                   lastConsensusEvent, accounts, txState, relayState,
                   selfRelayedTransactionHashes, balances, lastNotified>>

\* faulty variant: the hash is not recorded
SelfRelayed_NotRecorded(hashes, t) == hashes

\* this._selfRelayedTransactionHashes.add(tx.hash().toBase64())
SelfRelayed(hashes, t) == hashes \cup {t}

\* relayTransaction after its await
RelaySubmit(i) ==
    /\ ops[i].kind = "relay"
    /\ ops[i].pc = "gate"
    /\ GateResolved(ops[i].gate)
    /\ selfRelayedTransactionHashes' = SelfRelayed(selfRelayedTransactionHashes, ops[i].tx)
    /\ relayState' = [relayState EXCEPT ![ops[i].tx] = "submitted"]
    /\ runtimeCalls' = runtimeCalls \cup {"relayTransaction"}
    /\ ops' = RemoveAt(ops, i)
    /\ out' = <<>>
    /\ UNCHANGED <<history, sending, startup, built, pico, knownHead>>
    /\ UNCHANGED <<listening, established, consensusEstablished, resolvedGates,
                   lastConsensusEvent, accounts, txState, balances, lastNotified>>

\* _requestTransactionHistory after its await: the receipts are requested
ReceiptsRequest(i) ==
    /\ ops[i].kind = "history"
    /\ ops[i].pc = "gate"
    /\ GateResolved(ops[i].gate)
    /\ runtimeCalls' = runtimeCalls \cup {"requestTransactionReceipts"}
    /\ ops' = [ops EXCEPT ![i].pc = "receipts"]
    /\ out' = <<>>
    /\ UNCHANGED <<history, sending, startup, built, pico, knownHead>>
    /\ UNCHANGED <<listening, established, consensusEstablished, resolvedGates,
                   lastConsensusEvent, accounts, txState, relayState,
                   selfRelayedTransactionHashes, balances, lastNotified>>

\* _requestTransactionHistory returns (it writes no state of the wrapper)
HistoryDone(i) ==
    /\ ops[i].kind = "history"
    /\ ops[i].pc = "receipts"
    /\ ops' = RemoveAt(ops, i)
    /\ out' = <<>>
    /\ UNCHANGED <<history, sending, startup, built, pico, knownHead>>
    /\ UNCHANGED <<listening, established, consensusEstablished, resolvedGates,
                   lastConsensusEvent, accounts, txState, relayState, runtimeCalls,
                   selfRelayedTransactionHashes, balances, lastNotified>>

\* ----------------------------------------------------------- specification
Next ==
    \/ Connect
    \/ \E S \in SUBSET Addr \ {{}} : Subscribe(S)
    \/ \E S \in SUBSET Addr \ {{}} : GetBalance(S)
    \/ \E t \in Tx : RelayTransaction(t)
    \/ \E a \in Addr : RequestTransactionHistory(a)
    \/ ConsensusEstablishedEvent
    \/ ConsensusLostEvent
    \/ \E a \in Addr, v \in AccountValues : HeadChangedEvent(a, v)
    \/ \E t \in Tx : TransactionAddedEvent(t)
    \/ \E t \in Tx : TransactionExpiredEvent(t)
    \/ \E t \in Tx : TransactionMinedEvent(t)
    \/ \E t \in Tx : TransactionRelayedEvent(t)
    \/ \E i \in DOMAIN ops : GetAccounts(i)
    \/ \E i \in DOMAIN ops : GetAccountsFailure(i)
    \/ \E i \in DOMAIN ops : GetAccountsRetry(i)
    \/ \E i \in DOMAIN ops : RecheckBalancesDone(i)
    \/ \E i \in DOMAIN ops : GetBalanceDone(i)
    \/ \E i \in DOMAIN ops : SubscribeAccounts(i)
    \/ \E i \in DOMAIN ops : RelaySubmit(i)
    \/ \E i \in DOMAIN ops : ReceiptsRequest(i)
    \/ \E i \in DOMAIN ops : HistoryDone(i)

Spec == Init /\ [][Next]_vars

\* The balance cache while consensus, once established, is kept: the account of
\* A1 changes with the chain, A2 has no account record; account fetches succeed.
Volatile == {"A1"}

InitBalances == Init /\ \A a \in Addr \ Volatile : accounts[a] = NoAccount

NextBalances ==
    \/ Connect
    \/ \E S \in SUBSET Addr \ {{}} : Subscribe(S)
    \/ \E S \in SUBSET Addr \ {{}} : GetBalance(S)
    \/ \E t \in Tx : RelayTransaction(t)
    \/ ConsensusEstablishedEvent
    \/ \E a \in Volatile, v \in AccountValues : HeadChangedEvent(a, v)
    \/ \E t \in Tx : TransactionAddedEvent(t)
    \/ \E t \in Tx : TransactionExpiredEvent(t)
    \/ \E t \in Tx : TransactionMinedEvent(t)
    \/ \E t \in Tx : TransactionRelayedEvent(t)
    \/ \E i \in DOMAIN ops : GetAccounts(i)
    \/ \E i \in DOMAIN ops : RecheckBalancesDone(i)
    \/ \E i \in DOMAIN ops : GetBalanceDone(i)
    \/ \E i \in DOMAIN ops : SubscribeAccounts(i)
    \/ \E i \in DOMAIN ops : RelaySubmit(i)

SpecBalances == InitBalances /\ [][NextBalances]_vars

\* The balance cache on a chain that covers what the mempool holds: the mempool
\* takes a transaction only when the account of its sender pays value and fee,
\* and no head leaves an account below the pending amount of its address.
Funded(t) == accounts[TxSender(t)] >= TxValue(t) + TxFee(t)

Covers(a, v) ==
    \/ GetPendingAmount(txState, a) = Zero
    \/ v >= CoinsAsSatoshis(GetPendingAmount(txState, a))

NextFunded ==
    \/ Connect
    \/ \E S \in SUBSET Addr \ {{}} : Subscribe(S)
    \/ \E S \in SUBSET Addr \ {{}} : GetBalance(S)
    \/ \E t \in Tx : RelayTransaction(t)
    \/ ConsensusEstablishedEvent
    \/ \E a \in Volatile, v \in AccountValues : Covers(a, v) /\ HeadChangedEvent(a, v)
    \/ \E t \in Tx : Funded(t) /\ TransactionAddedEvent(t)
    \/ \E t \in Tx : TransactionExpiredEvent(t)
    \/ \E t \in Tx : TransactionMinedEvent(t)
    \/ \E t \in Tx : TransactionRelayedEvent(t)
    \/ \E i \in DOMAIN ops : GetAccounts(i)
    \/ \E i \in DOMAIN ops : RecheckBalancesDone(i)
    \/ \E i \in DOMAIN ops : GetBalanceDone(i)
    \/ \E i \in DOMAIN ops : SubscribeAccounts(i)
    \/ \E i \in DOMAIN ops : RelaySubmit(i)

SpecFunded == InitBalances /\ [][NextFunded]_vars

\* The balance cache when the transactions are the application's own: the
\* mempool takes a transaction only after relayTransaction has handed it to the
\* runtime.
Submitted(t) == relayState[t] # "no"

NextRelay ==
    \/ Connect
    \/ \E S \in SUBSET Addr \ {{}} : Subscribe(S)
    \/ \E S \in SUBSET Addr \ {{}} : GetBalance(S)
    \/ \E t \in Tx : RelayTransaction(t)
    \/ ConsensusEstablishedEvent
    \/ \E a \in Volatile, v \in AccountValues : HeadChangedEvent(a, v)
    \/ \E t \in Tx : Submitted(t) /\ TransactionAddedEvent(t)
    \/ \E t \in Tx : TransactionExpiredEvent(t)
    \/ \E t \in Tx : TransactionMinedEvent(t)
    \/ \E t \in Tx : TransactionRelayedEvent(t)
    \/ \E i \in DOMAIN ops : GetAccounts(i)
    \/ \E i \in DOMAIN ops : RecheckBalancesDone(i)
    \/ \E i \in DOMAIN ops : GetBalanceDone(i)
    \/ \E i \in DOMAIN ops : SubscribeAccounts(i)
    \/ \E i \in DOMAIN ops : RelaySubmit(i)

SpecRelay == InitBalances /\ [][NextRelay]_vars

\* The consensus gate: consensus is established and lost in any order and account
\* fetches can fail; the accounts stay as they are and the mempool stays empty.
InitGate == Init /\ accounts = [a \in Addr |-> IF a \in Volatile THEN MaxBalance ELSE NoAccount]

NextGate ==
    \/ Connect
    \/ \E S \in SUBSET Addr \ {{}} : Subscribe(S)
    \/ \E S \in SUBSET Addr \ {{}} : GetBalance(S)
    \/ \E t \in Tx : RelayTransaction(t)
    \/ \E a \in Addr : RequestTransactionHistory(a)
    \/ ConsensusEstablishedEvent
    \/ ConsensusLostEvent
    \/ \E a \in Addr : HeadChangedEvent(a, accounts[a])
    \/ \E i \in DOMAIN ops : GetAccounts(i)
    \/ \E i \in DOMAIN ops : GetAccountsFailure(i)
    \/ \E i \in DOMAIN ops : GetAccountsRetry(i)
    \/ \E i \in DOMAIN ops : RecheckBalancesDone(i)
    \/ \E i \in DOMAIN ops : GetBalanceDone(i)
    \/ \E i \in DOMAIN ops : SubscribeAccounts(i)
    \/ \E i \in DOMAIN ops : RelaySubmit(i)
    \/ \E i \in DOMAIN ops : ReceiptsRequest(i)
    \/ \E i \in DOMAIN ops : HistoryDone(i)

SpecGate == InitGate /\ [][NextGate]_vars

\* Balance retrieval from a runtime that keeps failing: every consensus.getAccounts
\* rejects.  The retry timers fire and the runtime answers every request.
RetryStep ==
    \E i \in DOMAIN ops :
        \/ GetAccountsFailure(i)
        \/ GetAccountsFailureAgain(i)
        \/ GetAccountsRetry(i)
        \/ RecheckBalancesDone(i)
        \/ SubscribeAccounts(i)

NextRetry ==
    \/ Connect
    \/ \E S \in SUBSET Addr \ {{}} : Subscribe(S)
    \/ \E S \in SUBSET Addr \ {{}} : GetBalance(S)
    \/ ConsensusEstablishedEvent
    \/ \E i \in DOMAIN ops : GetAccountsFailure(i)
    \/ \E i \in DOMAIN ops : GetAccountsFailureAgain(i)
    \/ \E i \in DOMAIN ops : GetAccountsRetry(i)
    \/ \E i \in DOMAIN ops : RecheckBalancesDone(i)
    \/ \E i \in DOMAIN ops : SubscribeAccounts(i)

SpecRetry == InitGate /\ [][NextRetry]_vars /\ WF_vars(RetryStep)

\* The scenario of one outgoing transaction of a subscribed address X: X holds
\* MaxBalance on chain and is subscribed once; when it is tracked, the transaction
\* (TxValue + TxFee) becomes pending and the recheck this triggers notifies the
\* adjusted balance; then the transaction is mined and the head changes, any
\* number of times, the chain debiting nothing else.  Account fetches can fail
\* and be retried.
ScenarioAddress == "A1"

ScenarioTx == "T1"

InitScenario ==
    Init /\ accounts = [a \in Addr |-> IF a = ScenarioAddress THEN MaxBalance ELSE NoAccount]

\* the application has not called subscribe yet
NotSubscribed ==
    /\ "subscribeAccounts" \notin runtimeCalls
    /\ \A i \in DOMAIN ops : ops[i].origin # "subscribe"

\* the recheck triggered by the pending transaction has notified the adjusted balance
PendingNotified ==
    /\ \A i \in DOMAIN ops : ops[i].origin # "tx"
    /\ ScenarioAddress \in DOMAIN lastNotified
    /\ lastNotified[ScenarioAddress] =
           CoinsSub(AccountBalance(accounts[ScenarioAddress]),
                    GetPendingAmount(txState, ScenarioAddress))

NextScenario ==
    \/ Connect
    \/ ~established /\ ConsensusEstablishedEvent
    \/ NotSubscribed /\ Subscribe({ScenarioAddress})
    \/ SenderTracked(balances, ScenarioAddress) /\ TransactionAddedEvent(ScenarioTx)
    \/ PendingNotified /\ TransactionMinedEvent(ScenarioTx)
    \/ /\ txState[ScenarioTx] = "mined"
       /\ HeadChangedEvent(ScenarioAddress, accounts[ScenarioAddress])
    \/ \E i \in DOMAIN ops : GetAccounts(i)
    \/ \E i \in DOMAIN ops : GetAccountsFailure(i)
    \/ \E i \in DOMAIN ops : GetAccountsRetry(i)
    \/ \E i \in DOMAIN ops : RecheckBalancesDone(i)
    \/ \E i \in DOMAIN ops : SubscribeAccounts(i)

SpecScenario == InitScenario /\ [][NextScenario]_vars

\* The transaction history: one requestTransactionHistory call for one or two
\* distinct addresses, any chain, any knownReceipts; every request of the
\* call is answered.
AddressLists == {<<a>> : a \in Addr} \cup {s \in Addr \X Addr : s[1] # s[2]}

\* fromHeight: the default, and the highest block
FromHeights == {0, MaxHeight}

NoFails == [a \in Addr |-> 0]

NextHistory ==
    \/ Connect
    \/ ~established /\ ConsensusEstablishedEvent
    \/ /\ ~history.returned
       /\ \E chain \in Chains, addresses \in AddressLists, known \in KnownReceipts,
             fromHeight \in FromHeights :
              RequestTransactionHistoryReturns(chain, addresses, known, fromHeight,
                                               NoFails, {}, {})

SpecHistory == InitGate /\ [][NextHistory]_vars

\* The transaction history from a runtime whose requests can reject: the receipt
\* request of an address rejects some number of times before it is answered, the
\* proof of a block and the transactions proof of a block reject or not.  The
\* caller knows nothing, or every address knows one transaction that the chain
\* holds no more.
FailCounts == {0, RECEIPT_TRIES - 1, RECEIPT_TRIES, RECEIPT_TRIES + 1}

NoneKnown == [a \in Addr |-> [h \in KnownHash |-> NotKnown]]

StaleKnown == [a \in Addr |-> [h \in KnownHash |-> IF h = MaxTx + 1 THEN NoBlock ELSE NotKnown]]

NextHistoryFailures ==
    \/ Connect
    \/ ~established /\ ConsensusEstablishedEvent
    \/ /\ ~history.returned
       /\ \E chain \in Chains, addresses \in AddressLists, known \in {NoneKnown, StaleKnown},
             fails \in [Addr -> FailCounts], failedBlocks \in SUBSET Heights,
             failedProofs \in SUBSET Heights :
              RequestTransactionHistoryReturns(chain, addresses, known, 0,
                                               fails, failedBlocks, failedProofs)

SpecHistoryFailures == InitGate /\ [][NextHistoryFailures]_vars

\* ------------------------------------- NanoApi.relayTransaction: the send loop
\* The later revisions of the wrapper (src/src/NanoApi.ts, src/unnamed/part_005)
\* hand the transaction to the runtime's client and read the state it reports.
TransactionState == {"new", "pending", "mined", "invalidated", "expired", "confirmed"}

Revisions == {"NanoApi.ts", "part_005"}

\* if (++attempts === 3) break
SEND_ATTEMPTS == 3

\* faulty variant: an invalidated transaction is treated like any other report
IsInvalidated_Never(state) == FALSE

\* txDetails.state === Nimiq.Client.TransactionState.INVALIDATED
IsInvalidated(state) == state = "invalidated"

\* isTxSent after a report.  NanoApi.ts compares txDetails.state with PENDING and
\* with MINED; part_005 compares txDetails.state with PENDING and txDetails.start,
\* a property the details do not have (undefined), with MINED.
IsTxSent(revision, state) ==
    IF revision = "NanoApi.ts" THEN state = "pending" \/ state = "mined"
    ELSE state = "pending" \/ FALSE

\* this._client.sendTransaction(tx) is called
Handed(s) == [s EXCEPT !.handed = @ + 1, !.pc = "sent"]

\* the top of the loop body: wait one second first if mustWaitBeforeRelay
LoopBody(s) == IF s.mustWaitBeforeRelay THEN [s EXCEPT !.pc = "timer"] ELSE Handed(s)

\* the loop body after the runtime has reported the state of the transaction
Reported(s, state) ==
    LET r == [s EXCEPT !.reported = Append(@, state)]
    IN IF IsInvalidated(state) THEN [r EXCEPT !.pc = "thrown"]
       ELSE LET n == [r EXCEPT !.isTxSent = IsTxSent(s.revision, state),
                               !.mustWaitBeforeRelay = TRUE,
                               !.attempts = @ + 1]
            IN IF n.attempts = SEND_ATTEMPTS \/ n.isTxSent
               THEN [n EXCEPT !.pc = "returned"]
               ELSE LoopBody(n)

\* relayTransaction(txObj) up to await this._consensusEstablished
NanoApiRelayTransaction(revision, t) ==
    /\ sending.pc = "idle"
    /\ sending' = [sending EXCEPT !.revision = revision, !.pc = "gate", !.tx = t,
                                  !.mustWaitBeforeRelay = ~established]
    /\ out' = <<>>
    /\ UNCHANGED <<listening, established, consensusEstablished, resolvedGates,
                   lastConsensusEvent, accounts, txState, relayState, runtimeCalls,
                   selfRelayedTransactionHashes, balances, ops, lastNotified>>
    /\ UNCHANGED <<history, startup, built, pico, knownHead>>

\* the gate is passed: the transaction is created, recorded as self-relayed, and
\* the loop is entered
NanoApiRelayCreated ==
    /\ sending.pc = "gate"
    /\ GateResolved(consensusEstablished)
    /\ selfRelayedTransactionHashes' = SelfRelayed(selfRelayedTransactionHashes, sending.tx)
    /\ sending' = LoopBody(sending)
    /\ out' = <<>>
    /\ UNCHANGED <<listening, established, consensusEstablished, resolvedGates,
                   lastConsensusEvent, accounts, txState, relayState, runtimeCalls,
                   balances, ops, lastNotified>>
    /\ UNCHANGED <<history, startup, built, pico, knownHead>>

\* the one-second timer fires
NanoApiRelayTimer ==
    /\ sending.pc = "timer"
    /\ sending' = Handed(sending)
    /\ out' = <<>>
    /\ UNCHANGED <<listening, established, consensusEstablished, resolvedGates,
                   lastConsensusEvent, accounts, txState, relayState, runtimeCalls,
                   selfRelayedTransactionHashes, balances, ops, lastNotified>>
    /\ UNCHANGED <<history, startup, built, pico, knownHead>>

\* sendTransaction resolves with the transaction's details
SendTransactionReported(state) ==
    /\ sending.pc = "sent"
    /\ sending' = Reported(sending, state)
    /\ out' = <<>>
    /\ UNCHANGED <<listening, established, consensusEstablished, resolvedGates,
                   lastConsensusEvent, accounts, txState, relayState, runtimeCalls,
                   selfRelayedTransactionHashes, balances, ops, lastNotified>>
    /\ UNCHANGED <<history, startup, built, pico, knownHead>>

NextSend ==
    \/ Connect
    \/ ~established /\ ConsensusEstablishedEvent
    \/ \E revision \in Revisions, t \in Tx : NanoApiRelayTransaction(revision, t)
    \/ NanoApiRelayCreated
    \/ NanoApiRelayTimer
    \/ \E state \in TransactionState : SendTransactionReported(state)

SpecSend == InitGate /\ [][NextSend]_vars

\* ------------------------------------------- nano-api.ts: the transaction builder
\* new Nimiq.BasicTransaction(senderPubKey, recipient, value, fee, height, signature):
\* the sender is the address of the key, both accounts are basic, no data
CreateBasicTransactionFromObject(obj) ==
    [format |-> "basic",
     sender |-> ToAddress(obj.senderPubKey), senderType |-> "BASIC",
     recipient |-> FromUserFriendlyAddress(obj.recipient), recipientType |-> "BASIC",
     value |-> CoinsAsSatoshis(obj.value), fee |-> CoinsAsSatoshis(obj.fee),
     validityStartHeight |-> ParseInt(obj.validityStartHeight),
     data |-> [type |-> "bytes", length |-> 0]]

CreateExtendedTransactionFromObject(obj) ==
    [format |-> "extended",
     sender |-> ToAddress(obj.senderPubKey), senderType |-> "BASIC",
     recipient |-> FromUserFriendlyAddress(obj.recipient), recipientType |-> "BASIC",
     value |-> CoinsAsSatoshis(obj.value), fee |-> CoinsAsSatoshis(obj.fee),
     validityStartHeight |-> ParseInt(obj.validityStartHeight),
     data |-> obj.extraData]

CreateVestingTransactionFromObject(obj) ==
    [format |-> "extended",
     sender |-> FromUserFriendlyAddress(obj.sender), senderType |-> "VESTING",
     recipient |-> ToAddress(obj.senderPubKey), recipientType |-> "BASIC",
     value |-> CoinsAsSatoshis(obj.value), fee |-> CoinsAsSatoshis(obj.fee),
     validityStartHeight |-> ParseInt(obj.validityStartHeight),
     data |-> obj.extraData]

\* if (typeof txObj.extraData === 'string') txObj.extraData = stringToUtf8ByteArray(...)
AsBytes(txObj) ==
    IF txObj.extraData.type = "string"
    THEN [txObj EXCEPT !.extraData = StringToUtf8ByteArray(txObj.extraData)]
    ELSE txObj

\* txObj.extraData && txObj.extraData.length > 0
HasExtraData(txObj) == txObj.extraData.type # "undefined" /\ txObj.extraData.length > 0

\* faulty variant: the payload is looked at before the vesting flag
CreateTransaction_PayloadFirst(txObj) ==
    IF HasExtraData(txObj) THEN CreateExtendedTransactionFromObject(txObj)
    ELSE IF txObj.isVesting = "true" THEN CreateVestingTransactionFromObject(txObj)
    ELSE CreateBasicTransactionFromObject(txObj)

\* the selection of relayTransaction, on the object with its payload as bytes
CreateTransaction(txObj) ==
    IF txObj.isVesting = "true" THEN CreateVestingTransactionFromObject(txObj)
    ELSE IF HasExtraData(txObj) THEN CreateExtendedTransactionFromObject(txObj)
    ELSE CreateBasicTransactionFromObject(txObj)

\* the model's one transaction hash
BuiltHash(tx) == "T1"

\* relayTransaction(txObj) of nano-api.ts once the gate is passed: the transaction
\* is built, recorded as self-relayed and handed to the runtime
BuildAndRelayTransaction(txObj) ==
    /\ built.pc = "none"
    /\ listening
    /\ GateResolved(consensusEstablished)
    /\ LET tx == CreateTransaction(AsBytes(txObj))
       IN /\ built' = [pc |-> "relayed", input |-> txObj, tx |-> tx]
          /\ selfRelayedTransactionHashes' =
                 SelfRelayed(selfRelayedTransactionHashes, BuiltHash(tx))
          /\ relayState' = [relayState EXCEPT ![BuiltHash(tx)] = "submitted"]
    /\ runtimeCalls' = runtimeCalls \cup {"relayTransaction"}
    /\ out' = <<>>
    /\ UNCHANGED <<listening, established, consensusEstablished, resolvedGates,
                   lastConsensusEvent, accounts, txState, balances, ops, lastNotified>>
    /\ UNCHANGED <<history, sending, startup, pico, knownHead>>

NextBuilder ==
    \/ Connect
    \/ ~established /\ ConsensusEstablishedEvent
    \/ \E txObj \in TransactionObjects : BuildAndRelayTransaction(txObj)

SpecBuilder == InitGate /\ [][NextBuilder]_vars

\* --------------------------------- initialization barrier, connect, disconnect
\* the executor of this._apiInitialized: the script was loaded, Nimiq.load() starts
ImportApiLoaded ==
    /\ startup.init = "importing"
    /\ startup' = [startup EXCEPT !.init = "loading"]
    /\ out' = <<>>
    /\ UNCHANGED <<listening, established, consensusEstablished, resolvedGates,
                   lastConsensusEvent, accounts, txState, relayState, runtimeCalls,
                   selfRelayedTransactionHashes, balances, ops, lastNotified>>
    /\ UNCHANGED <<history, sending, built, pico, knownHead>>

\* the script's 'error' event: _importApi rejects outside the try block, the
\* executor ends with that rejection
ImportApiError ==
    /\ startup.init = "importing"
    /\ startup' = [startup EXCEPT !.init = "importFailed"]
    /\ out' = <<>>
    /\ UNCHANGED <<listening, established, consensusEstablished, resolvedGates,
                   lastConsensusEvent, accounts, txState, relayState, runtimeCalls,
                   selfRelayedTransactionHashes, balances, ops, lastNotified>>
    /\ UNCHANGED <<history, sending, built, pico, knownHead>>

\* Nimiq.load() resolves: _onInitialized fires 'nimiq-api-ready', then resolve()
NimiqLoaded ==
    /\ startup.init = "loading"
    /\ startup' = [startup EXCEPT !.init = "initialized", !.ready = @ + 1]
    /\ out' = <<>>
    /\ UNCHANGED <<listening, established, consensusEstablished, resolvedGates,
                   lastConsensusEvent, accounts, txState, relayState, runtimeCalls,
                   selfRelayedTransactionHashes, balances, ops, lastNotified>>
    /\ UNCHANGED <<history, sending, built, pico, knownHead>>

\* Nimiq.load() rejects: _onInitializationError fires 'nimiq-api-fail', no resolve()
NimiqLoadError ==
    /\ startup.init = "loading"
    /\ startup' = [startup EXCEPT !.init = "loadFailed", !.fail = @ + 1]
    /\ out' = <<>>
    /\ UNCHANGED <<listening, established, consensusEstablished, resolvedGates,
                   lastConsensusEvent, accounts, txState, relayState, runtimeCalls,
                   selfRelayedTransactionHashes, balances, ops, lastNotified>>
    /\ UNCHANGED <<history, sending, built, pico, knownHead>>

\* a call that awaits this._apiInitialized
Awaiting(kind) == [kind |-> kind, pc |-> "apiInitialized"]

\* the continuations of one promise run in the order in which they were attached
FirstAwaiting(i) ==
    /\ startup.calls[i].pc = "apiInitialized"
    /\ \A j \in 1..(i - 1) : startup.calls[j].pc # "apiInitialized"

\* connect() up to await this._apiInitialized
ConnectCall ==
    /\ startup.made < MaxCalls
    /\ startup' = [startup EXCEPT !.shouldConnect = TRUE, !.last = "connect",
                                  !.calls = Append(@, Awaiting("connect")),
                                  !.made = @ + 1]
    /\ out' = <<>>
    /\ UNCHANGED <<listening, established, consensusEstablished, resolvedGates,
                   lastConsensusEvent, accounts, txState, relayState, runtimeCalls,
                   selfRelayedTransactionHashes, balances, ops, lastNotified>>
    /\ UNCHANGED <<history, sending, built, pico, knownHead>>

\* connect() past the barrier: it returns if disconnect() was called since, else
\* it asks the runtime for a consensus object
ConnectInitialized(i) ==
    /\ startup.init = "initialized"
    /\ startup.calls[i].kind = "connect"
    /\ FirstAwaiting(i)
    /\ startup' = [startup EXCEPT
                      !.proceeded = @ \cup {"connect"},
                      !.calls = IF startup.shouldConnect
                                THEN [@ EXCEPT ![i].pc = "volatileNano"]
                                ELSE RemoveAt(@, i)]
    /\ out' = <<>>
    /\ UNCHANGED <<listening, established, consensusEstablished, resolvedGates,
                   lastConsensusEvent, accounts, txState, relayState, runtimeCalls,
                   selfRelayedTransactionHashes, balances, ops, lastNotified>>
    /\ UNCHANGED <<history, sending, built, pico, knownHead>>

\* Nimiq.Consensus.volatileNano() resolves: the object becomes this._consensus,
\* the listeners are bound and its network is connected
ConsensusCreated(i) ==
    /\ startup.calls[i].pc = "volatileNano"
    /\ startup' = [startup EXCEPT !.created = @ + 1,
                                  !.consensus = startup.created + 1,
                                  !.connected = @ \cup {startup.created + 1},
                                  !.calls = RemoveAt(@, i)]
    /\ listening' = TRUE
    /\ out' = <<>>
    /\ UNCHANGED <<established, consensusEstablished, resolvedGates,
                   lastConsensusEvent, accounts, txState, relayState, runtimeCalls,
                   selfRelayedTransactionHashes, balances, ops, lastNotified>>
    /\ UNCHANGED <<history, sending, built, pico, knownHead>>

\* disconnect() up to await this._apiInitialized
DisconnectCall ==
    /\ startup.made < MaxCalls
    /\ startup' = [startup EXCEPT !.shouldConnect = FALSE, !.last = "disconnect",
                                  !.calls = Append(@, Awaiting("disconnect")),
                                  !.made = @ + 1]
    /\ out' = <<>>
    /\ UNCHANGED <<listening, established, consensusEstablished, resolvedGates,
                   lastConsensusEvent, accounts, txState, relayState, runtimeCalls,
                   selfRelayedTransactionHashes, balances, ops, lastNotified>>
    /\ UNCHANGED <<history, sending, built, pico, knownHead>>

\* disconnect() past the barrier: it returns if connect() was called since, else
\* it disconnects the network of this._consensus, if there is one
DisconnectInitialized(i) ==
    /\ startup.init = "initialized"
    /\ startup.calls[i].kind = "disconnect"
    /\ FirstAwaiting(i)
    /\ startup' = [startup EXCEPT
                      !.proceeded = @ \cup {"disconnect"},
                      !.connected = IF ~startup.shouldConnect /\ startup.consensus # 0
                                    THEN @ \ {startup.consensus} ELSE @,
                      !.calls = RemoveAt(@, i)]
    /\ out' = <<>>
    /\ UNCHANGED <<listening, established, consensusEstablished, resolvedGates,
                   lastConsensusEvent, accounts, txState, relayState, runtimeCalls,
                   selfRelayedTransactionHashes, balances, ops, lastNotified>>
    /\ UNCHANGED <<history, sending, built, pico, knownHead>>

\* getTransactionSize(txObj) up to await this._apiInitialized
GetTransactionSizeCall ==
    /\ startup.made < MaxCalls
    /\ startup' = [startup EXCEPT !.calls = Append(@, Awaiting("getTransactionSize")),
                                  !.made = @ + 1]
    /\ out' = <<>>
    /\ UNCHANGED <<listening, established, consensusEstablished, resolvedGates,
                   lastConsensusEvent, accounts, txState, relayState, runtimeCalls,
                   selfRelayedTransactionHashes, balances, ops, lastNotified>>
    /\ UNCHANGED <<history, sending, built, pico, knownHead>>

\* getTransactionSize past the barrier: the transaction is built and measured
GetTransactionSizeInitialized(i) ==
    /\ startup.init = "initialized"
    /\ startup.calls[i].kind = "getTransactionSize"
    /\ FirstAwaiting(i)
    /\ startup' = [startup EXCEPT !.proceeded = @ \cup {"getTransactionSize"},
                                  !.calls = RemoveAt(@, i)]
    /\ out' = <<>>
    /\ UNCHANGED <<listening, established, consensusEstablished, resolvedGates,
                   lastConsensusEvent, accounts, txState, relayState, runtimeCalls,
                   selfRelayedTransactionHashes, balances, ops, lastNotified>>
    /\ UNCHANGED <<history, sending, built, pico, knownHead>>

NextLifecycle ==
    \/ ImportApiLoaded
    \/ ImportApiError
    \/ NimiqLoaded
    \/ NimiqLoadError
    \/ ConnectCall
    \/ DisconnectCall
    \/ GetTransactionSizeCall
    \/ \E i \in DOMAIN startup.calls : ConnectInitialized(i)
    \/ \E i \in DOMAIN startup.calls : ConsensusCreated(i)
    \/ \E i \in DOMAIN startup.calls : DisconnectInitialized(i)
    \/ \E i \in DOMAIN startup.calls : GetTransactionSizeInitialized(i)

SpecLifecycle == InitGate /\ [][NextLifecycle]_vars

\* ------------------------------------------------------------- connectPico
\* for (let i = 0; i < 4; i++): the connectors of one call
PICO_CONNECTORS == 4

\* if (this._picoChannels.length >= 3), if (receivedBalanceMsgCount >= 3)
PICO_QUORUM == 3

PicoAddresses == {<<"A1">>, <<"A1", "A2">>}

PicoHeights == 1..(MaxHeight + 1)

\* the accounts an accounts-proof message carries: none, or one with a balance
PicoAccounts == [Addr -> {NoAccount, MaxBalance}]

Range(seq) == {seq[i] : i \in DOMAIN seq}

Highest(heads) == CHOOSE h \in Range(heads) : \A g \in Range(heads) : g <= h

Lowest(heads) == CHOOSE h \in Range(heads) : \A g \in Range(heads) : h <= g

\* const storedBalance = picoBalances.get(address); if (!storedBalance) ...:
\* no entry, or an entry of 0
NotStored(p, a) == a \notin p.stored \/ p.picoBalances[a] = Zero

\* the loop of onBalancesMsg over the addresses from index i on: an address with
\* no stored balance takes the message's, an address whose stored balance differs
\* ends the loop with hasBalanceConsensus = false
RECURSIVE VoteBalances(_, _, _)
VoteBalances(p, msg, i) ==
    IF i > Len(p.addresses) THEN p
    ELSE LET a == p.addresses[i]
             balance == AccountBalance(msg[a])
         IN IF NotStored(p, a)
            THEN VoteBalances([p EXCEPT !.stored = @ \cup {a},
                                        !.picoBalances[a] = balance], msg, i + 1)
            ELSE IF p.picoBalances[a] # balance
                 THEN [p EXCEPT !.hasBalanceConsensus = FALSE]
                 ELSE VoteBalances(p, msg, i + 1)

\* resolve(...): only the first call of a promise's resolver has an effect
Resolve(p, with) ==
    [p EXCEPT !.resolvedWith = IF @ = "none" THEN with ELSE @]

\* fallbackToNanoConsensus up to its await: this.connect() is invoked
FallbackConnects(p) == [p EXCEPT !.connects = @ + 1]

\* fallbackToNanoConsensus: this.getBalance(userFriendlyAddresses) is in flight
FallbackOps(inFlight, p) ==
    Disturb(inFlight) \o <<NewOp("getBalance", "pico", Range(p.addresses), NoTx, inFlight)>>

\* connectPico(userFriendlyAddresses) up to await this._apiInitialized
ConnectPicoCall(addresses) ==
    /\ pico.calls < MaxPicoCalls
    /\ \/ pico.pc = "none"
       \/ pico.resolvedWith # "none" /\ pico.timer = "fired" /\ ops = <<>>
    /\ pico' = [NoPicoCall(pico.picoChannels, pico.calls + 1) EXCEPT
                   !.pc = "apiInitialized", !.addresses = addresses]
    /\ out' = <<>>
    /\ UNCHANGED <<listening, established, consensusEstablished, resolvedGates,
                   lastConsensusEvent, accounts, txState, relayState, runtimeCalls,
                   selfRelayedTransactionHashes, balances, ops, lastNotified>>
    /\ UNCHANGED <<history, sending, startup, built, knownHead>>

\* connectPico past the barrier and the creation of its consensus object: the
\* connectors are started and the 5-second timer is set
ConnectPicoStarted ==
    /\ pico.pc = "apiInitialized"
    /\ startup.init = "initialized"
    /\ pico' = [pico EXCEPT !.pc = "running", !.timer = "set"]
    /\ out' = <<>>
    /\ UNCHANGED <<listening, established, consensusEstablished, resolvedGates,
                   lastConsensusEvent, accounts, txState, relayState, runtimeCalls,
                   selfRelayedTransactionHashes, balances, ops, lastNotified>>
    /\ UNCHANGED <<history, sending, startup, built, knownHead>>

\* channel.on('head') -> onChannelHead(channel, header)
ChannelHead(height) ==
    /\ pico.pc = "running"
    /\ Len(pico.picoHeads) < PICO_CONNECTORS
    /\ LET p == [pico EXCEPT !.picoChannels = @ + 1, !.picoHeads = Append(@, height)]
           agree == Highest(p.picoHeads) - Lowest(p.picoHeads) <= 1
       IN IF p.picoChannels >= PICO_QUORUM
          THEN IF agree
               THEN IF p.currentHead = 0
                    THEN /\ pico' = [p EXCEPT !.currentHead = Lowest(p.picoHeads),
                                              !.adoptedAfter = Len(p.picoHeads)]
                         /\ out' = <<Fire("nimiq-head-change")>>
                         /\ ops' = ops
                    ELSE /\ pico' = p
                         /\ out' = <<>>
                         /\ ops' = ops
               ELSE /\ Len(ops) < MaxOps
                    /\ pico' = FallbackConnects(p)
                    /\ ops' = FallbackOps(ops, p)
                    /\ out' = <<Started("getBalance", Range(p.addresses))>>
          ELSE /\ pico' = p
               /\ out' = <<>>
               /\ ops' = ops
    /\ UNCHANGED <<listening, established, consensusEstablished, resolvedGates,
                   lastConsensusEvent, accounts, txState, relayState, runtimeCalls,
                   selfRelayedTransactionHashes, balances, lastNotified>>
    /\ UNCHANGED <<history, sending, startup, built, knownHead>>

\* channel.on('accounts-proof') -> onBalancesMsg(msg), for an answer to the
\* requests of getBalances; valid: the message has a proof, is for the adopted
\* head and its proof's root is that head's accounts hash
AccountsProofMessage(msg, valid) ==
    /\ pico.pc = "running"
    /\ pico.currentHead # 0
    /\ pico.messages < MaxMessages
    /\ LET p == [pico EXCEPT !.messages = @ + 1,
                             !.reported = IF valid
                                          THEN [a \in Addr |-> @[a] \cup {AccountBalance(msg[a])}]
                                          ELSE @]
           v == VoteBalances(p, msg, 1)
           n == [v EXCEPT !.receivedBalanceMsgCount = @ + 1]
       IN IF p.hasBalanceConsensus /\ valid
          THEN IF ~v.hasBalanceConsensus
               THEN /\ Len(ops) < MaxOps
                    /\ pico' = FallbackConnects(v)
                    /\ ops' = FallbackOps(ops, v)
                    /\ out' = <<Started("getBalance", Range(v.addresses))>>
               ELSE /\ pico' = IF n.receivedBalanceMsgCount >= PICO_QUORUM
                               THEN [Resolve(n, "pico") EXCEPT !.resolved = TRUE]
                               ELSE n
                    /\ ops' = ops
                    /\ out' = <<>>
          ELSE /\ pico' = p
               /\ ops' = ops
               /\ out' = <<>>
    /\ UNCHANGED <<listening, established, consensusEstablished, resolvedGates,
                   lastConsensusEvent, accounts, txState, relayState, runtimeCalls,
                   selfRelayedTransactionHashes, balances, lastNotified>>
    /\ UNCHANGED <<history, sending, startup, built, knownHead>>

\* setTimeout(() => { if (resolved) return; fallbackToNanoConsensus(); }, 5000)
PicoTimeout ==
    /\ pico.timer = "set"
    /\ IF pico.resolved
       THEN /\ pico' = [pico EXCEPT !.timer = "fired"]
            /\ ops' = ops
            /\ out' = <<>>
       ELSE /\ Len(ops) < MaxOps
            /\ pico' = FallbackConnects([pico EXCEPT !.timer = "fired"])
            /\ ops' = FallbackOps(ops, pico)
            /\ out' = <<Started("getBalance", Range(pico.addresses))>>
    /\ UNCHANGED <<listening, established, consensusEstablished, resolvedGates,
                   lastConsensusEvent, accounts, txState, relayState, runtimeCalls,
                   selfRelayedTransactionHashes, balances, lastNotified>>
    /\ UNCHANGED <<history, sending, startup, built, knownHead>>

\* fallbackToNanoConsensus after its await: getBalance has stored the balances and
\* returned; resolve(balances); resolved = true
FallbackBalances(i) ==
    /\ ops[i].kind = "getBalance"
    /\ ops[i].origin = "pico"
    /\ ops[i].pc = "response"
    /\ balances' = MapSet(balances, ops[i].addrs, GetBalances(ops[i].fetched))
    /\ ops' = RemoveAt(ops, i)
    /\ pico' = [Resolve(pico, "nano") EXCEPT !.resolved = TRUE]
    /\ out' = <<Ended(ops[i])>>
    /\ UNCHANGED <<listening, established, consensusEstablished, resolvedGates,
                   lastConsensusEvent, accounts, txState, relayState, runtimeCalls,
                   selfRelayedTransactionHashes, lastNotified>>
    /\ UNCHANGED <<history, sending, startup, built, knownHead>>

\* connectPico on an initialized instance; the connect() of the fallback binds
\* the listeners, after which consensus is established and the accounts are read
NextPico ==
    \/ ImportApiLoaded
    \/ NimiqLoaded
    \/ \E addresses \in PicoAddresses : ConnectPicoCall(addresses)
    \/ ConnectPicoStarted
    \/ \E height \in PicoHeights : ChannelHead(height)
    \/ \E msg \in PicoAccounts, valid \in BOOLEAN : AccountsProofMessage(msg, valid)
    \/ PicoTimeout
    \/ pico.connects > 0 /\ Connect
    \/ ~established /\ ConsensusEstablishedEvent
    \/ \E i \in DOMAIN ops : GetAccounts(i)
    \/ \E i \in DOMAIN ops : FallbackBalances(i)

SpecPico == InitGate /\ [][NextPico]_vars

\* =================================================================== claims
Waiting(op) == op.pc = "gate"

PastGate(op) == op.pc \in {"response", "backoff", "receipts"} /\ op.addrs # {}

\* C3: the current gate instance is resolved exactly when the most recent
\* consensus event was 'established'; before any event it is unresolved.
C3_GateFollowsConsensus ==
    (consensusEstablished \in resolvedGates) <=> (lastConsensusEvent = "established")

\* consensus was established, lost and established again: the fresh gate is resolved
C3_Witness ==
    /\ consensusEstablished > 0
    /\ 0 \in resolvedGates
    /\ consensusEstablished \in resolvedGates
    /\ lastConsensusEvent = "established"

\* C4: a gated call has issued its runtime request only if the gate instance it
\* captured is resolved; before the first 'established' event no runtime request
\* has been issued and every gated call is still waiting.
C4_NoRuntimeRequestBeforeGate ==
    /\ \A i \in DOMAIN ops : PastGate(ops[i]) => ops[i].gate \in resolvedGates
    /\ resolvedGates = {} =>
          /\ runtimeCalls = {}
          /\ \A i \in DOMAIN ops : ops[i].addrs # {} \/ ops[i].kind = "relay" => Waiting(ops[i])

\* before consensus: a relayTransaction and an account fetch are both waiting
C4_WitnessBlocked ==
    /\ resolvedGates = {}
    /\ listening
    /\ \E i, j \in DOMAIN ops :
          /\ ops[i].kind = "relay" /\ Waiting(ops[i])
          /\ ops[j].kind = "getBalance" /\ Waiting(ops[j])

\* C5: once consensus is established, every call waiting on the gate is released,
\* that is, the gate instance it waits on is resolved.
C5_WaitersReleasedWhenEstablished ==
    lastConsensusEvent = "established" =>
        \A i \in DOMAIN ops : Waiting(ops[i]) => ops[i].gate \in resolvedGates

\* ------------------------------- part_006: connect and connectPico, guarded
\* connectPico() up to await this._apiInitialized
ConnectPicoAwaits ==
    /\ startup.made < MaxCalls
    /\ startup' = [startup EXCEPT !.shouldConnect = TRUE, !.last = "connectPico",
                                  !.calls = Append(@, Awaiting("connectPico")),
                                  !.made = @ + 1]
    /\ out' = <<>>
    /\ UNCHANGED <<listening, established, consensusEstablished, resolvedGates,
                   lastConsensusEvent, accounts, txState, relayState, runtimeCalls,
                   selfRelayedTransactionHashes, balances, ops, lastNotified>>
    /\ UNCHANGED <<history, sending, built, pico, knownHead>>

\* this._consensus && this._consensus.network._autoConnect
AutoConnect(s) == s.consensus # 0 /\ s.consensus \in s.connected

\* connect() past the barrier: it returns if disconnect() was called since or the
\* network of this._consensus connects by itself; if there is no this._consensus
\* it asks the runtime for one, else it connects the network of the one there is
ConnectProceeds(i) ==
    /\ startup.init = "initialized"
    /\ startup.calls[i].kind = "connect"
    /\ FirstAwaiting(i)
    /\ startup' = [startup EXCEPT
                      !.proceeded = @ \cup {"connect"},
                      !.connected = IF /\ startup.shouldConnect
                                       /\ ~AutoConnect(startup)
                                       /\ startup.consensus # 0
                                    THEN @ \cup {startup.consensus} ELSE @,
                      !.calls = IF /\ startup.shouldConnect
                                   /\ ~AutoConnect(startup)
                                   /\ startup.consensus = 0
                                THEN [@ EXCEPT ![i].pc = "volatileNano"]
                                ELSE RemoveAt(@, i)]
    /\ out' = <<>>
    /\ UNCHANGED <<listening, established, consensusEstablished, resolvedGates,
                   lastConsensusEvent, accounts, txState, relayState, runtimeCalls,
                   selfRelayedTransactionHashes, balances, ops, lastNotified>>
    /\ UNCHANGED <<history, sending, built, pico, knownHead>>

\* connectPico() past the barrier: it returns if disconnect() was called since;
\* if there is no this._consensus it asks the runtime for one, else it goes on
\* with the one there is
ConnectPicoProceeds(i) ==
    /\ startup.init = "initialized"
    /\ startup.calls[i].kind = "connectPico"
    /\ FirstAwaiting(i)
    /\ startup' = [startup EXCEPT
                      !.proceeded = @ \cup {"connectPico"},
                      !.calls = IF ~startup.shouldConnect THEN RemoveAt(@, i)
                                ELSE IF startup.consensus = 0
                                     THEN [@ EXCEPT ![i].pc = "volatileNano"]
                                     ELSE [@ EXCEPT ![i].pc = "pico"]]
    /\ out' = <<>>
    /\ UNCHANGED <<listening, established, consensusEstablished, resolvedGates,
                   lastConsensusEvent, accounts, txState, relayState, runtimeCalls,
                   selfRelayedTransactionHashes, balances, ops, lastNotified>>
    /\ UNCHANGED <<history, sending, built, pico, knownHead>>

\* connectPico(): Nimiq.Consensus.volatileNano() resolves: the object becomes
\* this._consensus and _bindEvents() binds the listeners to it; the call goes on
\* to the pico handshake
PicoConsensusCreated(i) ==
    /\ startup.calls[i].kind = "connectPico"
    /\ startup.calls[i].pc = "volatileNano"
    /\ startup' = [startup EXCEPT !.created = @ + 1,
                                  !.consensus = startup.created + 1,
                                  !.calls = [@ EXCEPT ![i].pc = "pico"]]
    /\ listening' = TRUE
    /\ out' = <<>>
    /\ UNCHANGED <<established, consensusEstablished, resolvedGates,
                   lastConsensusEvent, accounts, txState, relayState, runtimeCalls,
                   selfRelayedTransactionHashes, balances, ops, lastNotified>>
    /\ UNCHANGED <<history, sending, built, pico, knownHead>>

\* connectPico(): the handshake ends, and with it the call; with upgrade it ends
\* with a call of connect(), as the fallback and upgradeToNano do
PicoEnds(i, upgrade) ==
    /\ startup.calls[i].pc = "pico"
    /\ upgrade => startup.made < MaxCalls
    /\ startup' = IF upgrade
                  THEN [startup EXCEPT
                          !.shouldConnect = TRUE, !.last = "connect",
                          !.calls = Append(RemoveAt(@, i), Awaiting("connect")),
                          !.made = @ + 1]
                  ELSE [startup EXCEPT !.calls = RemoveAt(@, i)]
    /\ out' = <<>>
    /\ UNCHANGED <<listening, established, consensusEstablished, resolvedGates,
                   lastConsensusEvent, accounts, txState, relayState, runtimeCalls,
                   selfRelayedTransactionHashes, balances, ops, lastNotified>>
    /\ UNCHANGED <<history, sending, built, pico, knownHead>>

\* connect(), connectPico() and disconnect() are called at any time, before and
\* after the initialization, and the runtime hands out the consensus objects
\* asked for in any order.  Every consensus object gets its listeners bound when
\* it becomes this._consensus, so startup.created counts the _bindEvents() runs.
NextGuardedConnect ==
    \/ ImportApiLoaded
    \/ NimiqLoaded
    \/ ConnectCall
    \/ ConnectPicoAwaits
    \/ DisconnectCall
    \/ \E i \in DOMAIN startup.calls : ConnectProceeds(i)
    \/ \E i \in DOMAIN startup.calls : ConnectPicoProceeds(i)
    \/ \E i \in DOMAIN startup.calls :
            startup.calls[i].kind = "connect" /\ ConsensusCreated(i)
    \/ \E i \in DOMAIN startup.calls : PicoConsensusCreated(i)
    \/ \E i \in DOMAIN startup.calls, upgrade \in BOOLEAN : PicoEnds(i, upgrade)
    \/ \E i \in DOMAIN startup.calls : DisconnectInitialized(i)

SpecGuardedConnect == InitGate /\ [][NextGuardedConnect]_vars

\* ------------------------------------------- _headChanged with a known head
\* faulty variant: only the known head itself is dropped
IsKnownOrOutdated_EqualsOnly(known, header) == known # NoHeader /\ known = header

\* this._knownHead && this._knownHead.equals(header)
\*     || this._knownHead && this._knownHead.height > header.height
IsKnownOrOutdated(known, header) ==
    \/ known # NoHeader /\ known = header
    \/ known # NoHeader /\ known.height > header.height

\* _headChanged from the comparison with the known head on: the known head and
\* the heads notified so far
HeadChangedKnown(k, header) ==
    IF IsKnownOrOutdated(k.knownHead, header)
    THEN [k EXCEPT !.handled = header]
    ELSE [k EXCEPT !.handled = header, !.knownHead = header,
                   !.notified = Append(@, header)]

\* the same: what it fires and starts, in order
HeadChangedKnownOut(k, header, cache) ==
    IF IsKnownOrOutdated(k.knownHead, header) THEN <<>>
    ELSE (IF k.revision = "NanoApi.ts" THEN <<Fire("head-height")>> ELSE <<>>)
            \o <<Fire("nimiq-head-change")>>
            \o (IF k.knownHead = NoHeader THEN <<>>
                ELSE <<Started("recheck", DOMAIN cache)>>)

\* the same: the calls in flight after it; the first head starts no recheck
HeadChangedKnownOps(inFlight, k, header, cache) ==
    IF IsKnownOrOutdated(k.knownHead, header) \/ k.knownHead = NoHeader
    THEN inFlight
    ELSE RecheckBalances(inFlight, "head", DOMAIN cache)

\* part_006: 'head-changed' of the blockchain, or a head announced to connectPico
\* -> _headChanged(header), which has no await
HeadChanged(header) ==
    /\ knownHead.revision = "part_006"
    /\ listening
    /\ Len(knownHead.notified) < MaxNotifications
    /\ Len(ops) < MaxOps
    /\ IF ~established
       THEN /\ knownHead' = [knownHead EXCEPT !.handled = header]
            /\ out' = <<>>
            /\ ops' = ops
       ELSE /\ knownHead' = HeadChangedKnown(knownHead, header)
            /\ out' = HeadChangedKnownOut(knownHead, header, balances)
            /\ ops' = HeadChangedKnownOps(ops, knownHead, header, balances)
    /\ UNCHANGED <<history, sending, startup, built, pico>>
    /\ UNCHANGED <<listening, established, consensusEstablished, resolvedGates,
                   lastConsensusEvent, accounts, txState, relayState, runtimeCalls,
                   selfRelayedTransactionHashes, balances, lastNotified>>

\* part_006: 'established' -> __consensusEstablished(), then
\* _headChanged(this._consensus.blockchain.head.header)
EstablishedWithHead(header) ==
    /\ knownHead.revision = "part_006"
    /\ listening
    /\ Len(knownHead.notified) < MaxNotifications
    /\ Len(ops) < MaxOps
    /\ established' = TRUE
    /\ resolvedGates' = resolvedGates \cup {consensusEstablished}
    /\ lastConsensusEvent' = "established"
    /\ knownHead' = HeadChangedKnown(knownHead, header)
    /\ out' = <<Fire("nimiq-consensus-established")>>
                \o HeadChangedKnownOut(knownHead, header, balances)
    /\ ops' = HeadChangedKnownOps(ops, knownHead, header, balances)
    /\ UNCHANGED <<history, sending, startup, built, pico>>
    /\ UNCHANGED <<listening, consensusEstablished, accounts, txState, relayState,
                   runtimeCalls, selfRelayedTransactionHashes, balances, lastNotified>>

\* NanoApi.ts: the consensus listener, state ESTABLISHED
ClientEstablished ==
    /\ knownHead.revision = "NanoApi.ts"
    /\ listening
    /\ established' = TRUE
    /\ resolvedGates' = resolvedGates \cup {consensusEstablished}
    /\ lastConsensusEvent' = "established"
    /\ out' = <<Fire("consensus"), Fire("nimiq-consensus-established")>>
    /\ UNCHANGED <<history, sending, startup, built, pico, knownHead>>
    /\ UNCHANGED <<listening, consensusEstablished, accounts, txState, relayState,
                   runtimeCalls, selfRelayedTransactionHashes, balances, ops,
                   lastNotified>>

\* NanoApi.ts: the consensus listener, state CONNECTING; the gate is replaced
\* only when it was resolved
ClientConnecting ==
    /\ knownHead.revision = "NanoApi.ts"
    /\ listening
    /\ established => consensusEstablished < MaxGates
    /\ established' = FALSE
    /\ consensusEstablished' = IF established THEN CreateConsensusPromise
                                              ELSE consensusEstablished
    /\ lastConsensusEvent' = "lost"
    /\ out' = <<Fire("consensus"), Fire("nimiq-consensus-lost")>>
    /\ UNCHANGED <<history, sending, startup, built, pico, knownHead>>
    /\ UNCHANGED <<listening, resolvedGates, accounts, txState, relayState, runtimeCalls,
                   selfRelayedTransactionHashes, balances, ops, lastNotified>>

\* NanoApi.ts: the head listener -> _headChanged() up to
\* await this._client.getHeadBlock(false)
HeadChangedCall ==
    /\ knownHead.revision = "NanoApi.ts"
    /\ listening
    /\ established
    /\ knownHead.calls < MaxHeadCalls
    /\ knownHead' = [knownHead EXCEPT !.calls = @ + 1]
    /\ out' = <<>>
    /\ UNCHANGED <<history, sending, startup, built, pico>>
    /\ UNCHANGED <<listening, established, consensusEstablished, resolvedGates,
                   lastConsensusEvent, accounts, txState, relayState, runtimeCalls,
                   selfRelayedTransactionHashes, balances, ops, lastNotified>>

\* NanoApi.ts: the client has answered call i of the calls awaiting it with the
\* head block it had then; _headChanged goes on to its end
HeadChangedFetched(i, header) ==
    /\ knownHead.revision = "NanoApi.ts"
    /\ i \in 1..knownHead.calls
    /\ Len(knownHead.notified) < MaxNotifications
    /\ Len(ops) < MaxOps
    /\ knownHead' = [HeadChangedKnown(knownHead, header) EXCEPT
                        !.calls = @ - 1, !.overtaken = i > 1]
    /\ out' = HeadChangedKnownOut(knownHead, header, balances)
    /\ ops' = HeadChangedKnownOps(ops, knownHead, header, balances)
    /\ UNCHANGED <<history, sending, startup, built, pico>>
    /\ UNCHANGED <<listening, established, consensusEstablished, resolvedGates,
                   lastConsensusEvent, accounts, txState, relayState, runtimeCalls,
                   selfRelayedTransactionHashes, balances, lastNotified>>

\* Heads of any height and branch arrive in any order, consensus is established
\* and lost, and in NanoApi.ts the calls awaiting the head block end in any order.
InitHead ==
    /\ listening = FALSE
    /\ established = FALSE
    /\ consensusEstablished = 0
    /\ resolvedGates = {}
    /\ lastConsensusEvent = "none"
    /\ accounts = [a \in Addr |-> IF a \in Volatile THEN MaxBalance ELSE NoAccount]
    /\ txState = [t \in Tx |-> "none"]
    /\ relayState = [t \in Tx |-> "no"]
    /\ runtimeCalls = {}
    /\ selfRelayedTransactionHashes = {}
    /\ balances = NoCache
    /\ ops = <<>>
    /\ lastNotified = NoCache
    /\ out = <<>>
    /\ history = NoHistory
    /\ sending = NoSending
    /\ startup = NoStartup
    /\ built = NoBuilt
    /\ pico = NoPico
    /\ knownHead \in {KnownHeadOf(r) : r \in HeadRevisions}

NextHead ==
    \/ Connect
    \/ \E h \in Headers : HeadChanged(h)
    \/ \E h \in Headers : EstablishedWithHead(h)
    \/ knownHead.revision = "part_006" /\ ConsensusLostEvent
    \/ ClientEstablished
    \/ ClientConnecting
    \/ HeadChangedCall
    \/ \E i \in 1..MaxHeadCalls, h \in Headers : HeadChangedFetched(i, h)
    \/ \E i \in DOMAIN ops : RecheckBalancesDone(i)

SpecHead == InitHead /\ [][NextHead]_vars

\* ------------------------------------------------------- balance rechecks
\* the adjusted balance a recheck computes from its answer
AdjustedOf(op, a) == CoinsSub(AccountBalance(op.fetched[a]), GetPendingAmount(txState, a))

\* the adjusted balance in the runtime's present state
AdjustedNow(a) == CoinsSub(AccountBalance(accounts[a]), GetPendingAmount(txState, a))

Differs(op, a) == a \notin DOMAIN balances \/ balances[a] # AdjustedOf(op, a)

BalanceFires(fires) == {k \in DOMAIN fires : fires[k].name = "nimiq-balances"}

RecheckEnds(fires) == {k \in DOMAIN fires : fires[k].type = "end" /\ fires[k].name = "recheck"}

\* C1: the end of a recheck of the addresses A notifies exactly the addresses of A
\* whose adjusted balance differs from the cached value, with that balance, writes
\* the cache for exactly those, and fires nothing when there are none; a recheck
\* whose answer is current leaves every address of A at the runtime's adjusted
\* balance, and a recheck that finds them there with a current answer fires nothing.
C1_RecheckNotifiesExactlyChanged ==
    [][\A i \in DOMAIN ops : RecheckBalancesDone(i) =>
          LET op == ops[i]
              D == {a \in op.addrs : Differs(op, a)}
              current == \A a \in op.addrs : op.fetched[a] = accounts[a]
          IN /\ BalanceFires(out') = IF D = {} THEN {} ELSE {1}
             /\ D # {} => /\ DOMAIN out'[1].data = D
                          /\ \A a \in D : out'[1].data[a] = AdjustedOf(op, a)
             /\ DOMAIN balances' = DOMAIN balances \cup D
             /\ \A a \in D : balances'[a] = AdjustedOf(op, a)
             /\ \A a \in DOMAIN balances \ D : balances'[a] = balances[a]
             /\ current => \A a \in op.addrs : balances'[a] = AdjustedNow(a)
             /\ (current /\ \A a \in op.addrs :
                               a \in DOMAIN balances /\ balances[a] = AdjustedNow(a))
                   => BalanceFires(out') = {}
    ]_vars

\* a recheck of both addresses has ended, notifying one of them only
C1_Witness ==
    /\ Len(out) = 2
    /\ out[1].name = "nimiq-balances" /\ DOMAIN out[1].data = {"A1"}
    /\ out[2].type = "end" /\ out[2].name = "recheck" /\ out[2].addrs = Addr

\* a recheck has ended without a notification, the cache holding its addresses
C1_WitnessSilent ==
    /\ Len(out) = 1
    /\ out[1].type = "end" /\ out[1].name = "recheck" /\ out[1].addrs = Addr
    /\ txState["T1"] = "pending"

\* C2: the recheck that subscribe(addresses) starts ends with a balance
\* notification that carries every one of the addresses.
C2_SubscribeAlwaysNotifies ==
    \A k \in RecheckEnds(out) :
        out[k].origin = "subscribe" =>
            \E n \in BalanceFires(out) : out[k].addrs \subseteq DOMAIN out[n].data

\* C6 (as claimed): a recheck that a later-started recheck has superseded on an
\* address does not write the cache entry of that address.
C6_EarlierNeverOverwritesLater ==
    \A k \in RecheckEnds(out) : \A n \in BalanceFires(out) :
        DOMAIN out[n].data \cap out[k].stale = {}

\* C6 (amended): of two overlapping rechecks of an address, the one whose answer
\* is processed last sets the cache entry, also when it started first.
C6_LastProcessedAnswerWins ==
    [][\A i \in DOMAIN ops : RecheckBalancesDone(i) =>
          \A a \in ops[i].superseded : balances'[a] = AdjustedOf(ops[i], a)
    ]_vars

\* a superseded recheck has ended and has written the superseded entry
C6_Witness ==
    \E k \in RecheckEnds(out) : \E n \in BalanceFires(out) :
        /\ out[k].stale # {}
        /\ out[k].stale \subseteq DOMAIN out[n].data
        /\ \A a \in out[k].stale : balances[a] = out[n].data[a]

\* C7: when a recheck of all tracked addresses has run from start to end with no
\* other call in flight and no change of the runtime, every cache entry equals the
\* runtime's adjusted balance and so does the last notified value of every
\* address that was ever notified.
C7_QuietRecheckLeavesAllConsistent ==
    \A k \in RecheckEnds(out) :
        (out[k].origin = "head" /\ out[k].quiet /\ out[k].addrs = DOMAIN balances) =>
            \A a \in DOMAIN balances :
                /\ balances[a] = AdjustedNow(a)
                /\ a \in DOMAIN lastNotified => lastNotified[a] = AdjustedNow(a)

\* C8: a step fires at most one 'nimiq-balances', and only as the step in which a
\* recheck ends, after its account fetch has been answered; the notification
\* carries addresses of that recheck only.
C8_OneNotificationPerRecheck ==
    /\ Cardinality(BalanceFires(out)) <= 1
    /\ \A n \in BalanceFires(out) :
          /\ Len(out) = 2 /\ n = 1
          /\ out[2].type = "end" /\ out[2].name = "recheck"
          /\ DOMAIN out[1].data \subseteq out[2].addrs

\* one notification carries the changes of both addresses of a recheck
C8_Witness ==
    /\ Len(out) = 2
    /\ out[1].name = "nimiq-balances" /\ DOMAIN out[1].data = Addr
    /\ out[2].type = "end" /\ out[2].name = "recheck"

\* C9: a head-changed event while consensus is established starts a recheck of
\* all addresses in the cache and then fires 'nimiq-head-change'; while consensus
\* is not established it starts nothing and fires nothing.
C9_HeadChangeRechecksWhenEstablished ==
    [][\A a \in Addr, v \in AccountValues : HeadChangedEvent(a, v) =>
          IF established
          THEN /\ Len(ops') = Len(ops) + 1
               /\ ops'[Len(ops')].kind = "recheck"
               /\ ops'[Len(ops')].addrs = DOMAIN balances
               /\ out' = <<Started("recheck", DOMAIN balances), Fire("nimiq-head-change")>>
          ELSE /\ Len(ops') = Len(ops)
               /\ out' = <<>>
    ]_vars

\* consensus was lost and established again, and a head change has started a
\* recheck of a tracked address
C9_Witness ==
    /\ Len(out) = 2
    /\ out[1].type = "call" /\ out[1].name = "recheck" /\ out[1].addrs # {}
    /\ out[2].name = "nimiq-head-change"
    /\ consensusEstablished > 0

\* what a transaction handler does for transaction t and its event
TransactionHandled(t, event) ==
    IF TxSender(t) \in DOMAIN balances
    THEN /\ out' = <<Started("recheck", {TxSender(t)}), FireTransaction(event, t)>>
         /\ Len(ops') = Len(ops) + 1
         /\ ops'[Len(ops')].kind = "recheck"
         /\ ops'[Len(ops')].addrs = {TxSender(t)}
    ELSE /\ out' = <<FireTransaction(event, t)>>
         /\ Len(ops') = Len(ops)

\* C10: a transaction observed as pending (not self-relayed), mined, expired or
\* relayed starts a recheck of its sender before its notification is fired when
\* the sender is in the cache, and only fires the notification when it is not.
C10_TransactionRechecksSenderFirst ==
    [][\A t \in Tx :
          /\ (TransactionAddedEvent(t) /\ t \notin selfRelayedTransactionHashes)
                => TransactionHandled(t, "nimiq-transaction-pending")
          /\ TransactionMinedEvent(t) => TransactionHandled(t, "nimiq-transaction-mined")
          /\ TransactionExpiredEvent(t) => TransactionHandled(t, "nimiq-transaction-expired")
          /\ TransactionRelayedEvent(t) => TransactionHandled(t, "nimiq-transaction-relayed")
    ]_vars

\* the sender of a mined transaction is tracked: its recheck precedes the notification
C10_Witness ==
    /\ Len(out) = 2
    /\ out[1] = Started("recheck", {"A1"})
    /\ out[2] = FireTransaction("nimiq-transaction-mined", "T1")

\* the sender of a relayed transaction is not tracked: the notification alone
C10_WitnessUntracked ==
    /\ out = <<FireTransaction("nimiq-transaction-relayed", "T1")>>
    /\ "A1" \notin DOMAIN balances

\* C11: in the scenario, once the transaction is mined (the chain holds the
\* balance that was notified while it was pending, nothing is pending) the
\* rechecks triggered by the mined event and by the head changes end without a
\* balance notification for X, however their steps interleave, and the value last
\* notified stays the adjusted balance.
C11_MinedConfirmsWithoutNotification ==
    txState[ScenarioTx] = "mined" =>
        /\ lastNotified[ScenarioAddress] = AdjustedNow(ScenarioAddress)
        /\ balances[ScenarioAddress] = AdjustedNow(ScenarioAddress)
        /\ \A k \in RecheckEnds(out) : out[k].origin \in {"tx", "head"} =>
              \A n \in BalanceFires(out) : ScenarioAddress \notin DOMAIN out[n].data

\* after the mining, one of the two rechecks ends silently while another is in flight
C11_Witness ==
    /\ txState[ScenarioTx] = "mined"
    /\ Len(out) = 1
    /\ out[1].type = "end" /\ out[1].name = "recheck" /\ out[1].addrs = {ScenarioAddress}
    /\ out[1].origin = "tx"
    /\ \E i \in DOMAIN ops : ops[i].origin = "head" /\ ops[i].pc = "response"

\* ------------------------------------------------------- cache and getBalance
GetBalanceEnds(fires) == {k \in DOMAIN fires : fires[k].type = "end" /\ fires[k].name = "getBalance"}

\* C12 (refuted by SpecBalances): a getBalance during which nothing else happened
\* leaves in the cache, for each of its addresses, the pending-adjusted balance
\* that a recheck would store, so that a recheck right after it notifies nothing.
C12_GetBalanceStoresAdjusted ==
    \A k \in GetBalanceEnds(out) :
        out[k].quiet => \A a \in out[k].addrs : balances[a] = AdjustedNow(a)

\* C13 (refuted by SpecBalances): the cache holds, for every address notified at
\* least once, the value last notified for it.
C13_CacheIsLastNotified ==
    \A a \in DOMAIN lastNotified : a \in DOMAIN balances /\ balances[a] = lastNotified[a]

\* C14 (refuted by SpecBalances): no cache entry is ever removed, and an entry
\* is created only at the end of a recheck that subscribe started.
C14_OnlySubscribeCreatesEntries ==
    [][/\ DOMAIN balances \subseteq DOMAIN balances'
       /\ DOMAIN balances' # DOMAIN balances =>
             \E k \in RecheckEnds(out') : out'[k].origin = "subscribe"]_vars

C15_WitnessNotified ==
    \E k \in BalanceFires(out) : \E a \in DOMAIN out[k].data :
        accounts[a] = NoAccount /\ out[k].data[a] = Zero /\ balances[a] = Zero

\* a balance retrieval whose account fetch has failed is in flight
Retrying == \E i \in DOMAIN ops : ops[i].stackHeight > 0

\* C16 (refuted by SpecRetry): when the runtime keeps failing, a balance
\* retrieval that is being retried comes to an end.
C16_RetrievalEnds == Retrying ~> ~Retrying

\* C17 (refuted by SpecFunded): every cached and every notified value is a
\* balance of zero or more.
C17_BalancesNonNegative ==
    /\ \A a \in DOMAIN balances : CoinsAsSatoshis(balances[a]) >= 0
    /\ \A a \in DOMAIN lastNotified : CoinsAsSatoshis(lastNotified[a]) >= 0
    /\ \A k \in BalanceFires(out) :
          \A a \in DOMAIN out[k].data : CoinsAsSatoshis(out[k].data[a]) >= 0

\* C30: a transaction that relayTransaction has handed to the runtime is recorded
\* as self-relayed; when the mempool then takes it, no notification is fired and
\* no recheck is started; its 'transaction-relayed' event starts the recheck of
\* its sender, when tracked, and fires 'nimiq-transaction-relayed'.
C30_SelfRelayedAddedIsSilent ==
    [][\A t \in Tx :
          /\ relayState'[t] # "no" => t \in selfRelayedTransactionHashes'
          /\ (TransactionAddedEvent(t) /\ Submitted(t)) =>
                /\ out' = <<>>
                /\ Len(ops') = Len(ops)
                /\ \A i \in DOMAIN ops : ops'[i].kind = ops[i].kind /\ ops'[i].addrs = ops[i].addrs
          /\ TransactionRelayedEvent(t) => TransactionHandled(t, "nimiq-transaction-relayed")
    ]_vars

\* the mempool has taken a submitted transaction of a tracked sender in silence,
\* no recheck is in flight and the cache still holds the balance without it
C30_Witness ==
    /\ \E t \in Tx :
          /\ relayState[t] = "submitted"
          /\ txState[t] = "pending"
          /\ TxSender(t) \in DOMAIN balances
          /\ balances[TxSender(t)] # AdjustedNow(TxSender(t))
    /\ ops = <<>>
    /\ out = <<>>

\* ------------------------------------------------------ transaction history
\* the transactions of all requested addresses before duplicates are removed
FlatTransactions ==
    Flatten([i \in DOMAIN history.addresses |->
                AddressHistory(history.chain, history.addresses[i],
                               history.known[history.addresses[i]], history.fromHeight,
                               history.fails[history.addresses[i]],
                               history.failedBlocks, history.failedProofs).transactions])

FirstIndex(s, h) == CHOOSE i \in DOMAIN s : s[i].hash = h /\ \A j \in DOMAIN s : s[j].hash = h => i <= j

\* C18: newTransactions holds no two entries with one hash; it holds every hash
\* of the flattened list, in the order of their first occurrences there.
C18_NoDuplicateHashes ==
    history.returned =>
        LET new == history.result.newTransactions
            flat == FlatTransactions
        IN /\ \A i, j \in DOMAIN new : i # j => new[i].hash # new[j].hash
           /\ {new[i].hash : i \in DOMAIN new} = {flat[i].hash : i \in DOMAIN flat}
           /\ \A i \in DOMAIN new : new[i] = flat[FirstIndex(flat, new[i].hash)]
           /\ \A i, j \in DOMAIN new :
                 i < j => FirstIndex(flat, new[i].hash) < FirstIndex(flat, new[j].hash)

\* two addresses share a transaction, the second occurrence was dropped from
\* between two entries that are kept
C18_Witness ==
    /\ history.returned
    /\ Len(history.addresses) = 2
    /\ Len(FlatTransactions) = 3
    /\ Len(history.result.newTransactions) = 2
    /\ FlatTransactions[1].hash = FlatTransactions[2].hash

\* C19 (refuted by SpecHistory): newTransactions is in ascending order of block
\* height.
C19_NewTransactionsAscending ==
    history.returned =>
        LET new == history.result.newTransactions
        IN \A i, j \in DOMAIN new : i < j => new[i].blockHeight <= new[j].blockHeight

\* the receipts the runtime returned for the address
Fetched(a) == ServerReceipts(history.chain, a)

\* the address is one whose known hash h may be reported as removed
Removable(a, h) ==
    /\ h \in KnownTxHashes(history.known[a])
    /\ Len(Fetched(a)) < RECEIPTS_MAX_COUNT
    /\ \A i \in DOMAIN Fetched(a) : Fetched(a)[i].transactionHash # h

\* C20: a hash is in removedTransactions once for every requested address that
\* knows it and whose fetched receipts are fewer than RECEIPTS_MAX_COUNT and
\* lack it, and not otherwise: an address whose receipts reach the cap reports
\* nothing as removed.
C20_RemovedOnlyBelowCap ==
    history.returned =>
        LET removed == history.result.removedTransactions
        IN \A h \in KnownHash :
              Cardinality({k \in DOMAIN removed : removed[k] = h})
                  = Cardinality({i \in DOMAIN history.addresses :
                                    Removable(history.addresses[i], h)})

\* a hash is reported as removed
C20_Witness ==
    /\ history.returned
    /\ history.result.removedTransactions # <<>>

\* the receipts reach the cap and lack a known hash: nothing is reported
C20_WitnessAtCap ==
    /\ history.returned
    /\ Len(history.addresses) = 1
    /\ Len(Fetched(history.addresses[1])) = RECEIPTS_MAX_COUNT
    /\ \E h \in KnownTxHashes(history.known[history.addresses[1]]) :
          \A i \in DOMAIN Fetched(history.addresses[1]) :
              Fetched(history.addresses[1])[i].transactionHash # h
    /\ history.result.removedTransactions = <<>>

\* the receipt is one the claim's filter keeps for address a
Unknown(a, r) ==
    /\ r.blockHeight >= history.fromHeight
    /\ \/ history.known[a][r.transactionHash] = NotKnown
       \/ r.blockHash # history.known[a][r.transactionHash]

\* knownReceipts holds every fetched hash of every requested address with the
\* block hash of its receipt
AllKnown ==
    \A i \in DOMAIN history.addresses :
        \A k \in DOMAIN Fetched(history.addresses[i]) :
            history.known[history.addresses[i]][Fetched(history.addresses[i])[k].transactionHash]
                = Fetched(history.addresses[i])[k].blockHash

\* C21: the block of a fetched receipt is asked for when the receipt is at or
\* above fromHeight and its hash is not known or known with another block hash;
\* blocks and transactions proofs are requested for such receipts only; when
\* knownReceipts holds every fetched hash with its block hash, no block and no
\* proof is requested and newTransactions is empty.
C21_FilterKeepsUnknown ==
    history.returned =>
        /\ \A i \in DOMAIN history.addresses :
              LET a == history.addresses[i]
                  req == history.requested[i]
              IN /\ \A k \in DOMAIN Fetched(a) :
                        Unknown(a, Fetched(a)[k]) =>
                            \E j \in DOMAIN req.blocks :
                                req.blocks[j].blockHash = Fetched(a)[k].blockHash
                 /\ \A j \in DOMAIN req.blocks :
                        \E k \in DOMAIN Fetched(a) :
                            Fetched(a)[k] = req.blocks[j] /\ Unknown(a, Fetched(a)[k])
                 /\ \A j \in DOMAIN req.proofs :
                        \E k \in DOMAIN Fetched(a) :
                            Fetched(a)[k] = req.proofs[j] /\ Unknown(a, Fetched(a)[k])
        /\ AllKnown =>
              /\ history.result.newTransactions = <<>>
              /\ \A i \in DOMAIN history.addresses :
                    history.requested[i].blocks = <<>> /\ history.requested[i].proofs = <<>>

\* every receipt of two addresses is known with its block: nothing is requested
C21_Witness ==
    /\ history.returned
    /\ AllKnown
    /\ Len(history.addresses) = 2
    /\ \A i \in DOMAIN history.addresses : Fetched(history.addresses[i]) # <<>>
    /\ history.result.newTransactions = <<>>

\* a receipt known with another block hash is resolved again
C21_WitnessReorganized ==
    /\ history.returned
    /\ Len(history.addresses) = 1
    /\ \E k \in DOMAIN Fetched(history.addresses[1]) :
          LET r == Fetched(history.addresses[1])[k]
          IN /\ history.known[history.addresses[1]][r.transactionHash] \in Heights
             /\ history.known[history.addresses[1]][r.transactionHash] # r.blockHash
             /\ \E j \in DOMAIN history.result.newTransactions :
                   history.result.newTransactions[j].hash = r.transactionHash

\* the hashes of newTransactions
NewHashes == {history.result.newTransactions[j].hash : j \in DOMAIN history.result.newTransactions}

\* C22: when the proof of a needed block cannot be obtained the call returns;
\* the receipt for which the block was requested is in unresolvedTransactions,
\* which holds receipts of failed blocks only, and the transaction of every
\* receipt needed from a block that was obtained is in newTransactions.
C22_FailedBlockNotFatal ==
    history.returned =>
        /\ \A i \in DOMAIN history.addresses :
              LET a == history.addresses[i]
                  unresolved == history.result.unresolvedTransactions
              IN /\ \A j \in DOMAIN history.requested[i].blocks :
                        history.requested[i].blocks[j].blockHash \in history.failedBlocks =>
                            \E k \in DOMAIN unresolved : unresolved[k] = history.requested[i].blocks[j]
                 /\ history.fails[a] < RECEIPT_TRIES =>
                        \A k \in DOMAIN Fetched(a) :
                            (/\ Unknown(a, Fetched(a)[k])
                             /\ Fetched(a)[k].blockHash \notin history.failedBlocks
                             /\ Fetched(a)[k].blockHash \notin history.failedProofs)
                                => Fetched(a)[k].transactionHash \in NewHashes
        /\ \A k \in DOMAIN history.result.unresolvedTransactions :
              history.result.unresolvedTransactions[k].blockHash \in history.failedBlocks

\* one address needs two blocks; the proof of one is refused, the transaction
\* of the other is returned
C22_Witness ==
    /\ history.returned
    /\ Len(history.addresses) = 1
    /\ Len(history.requested[1].blocks) = 2
    /\ Cardinality(history.failedBlocks) = 1
    /\ history.failedProofs = {}
    /\ Len(history.result.unresolvedTransactions) = 1
    /\ Len(history.result.newTransactions) = 1
    /\ history.result.newTransactions[1].blockHash \notin history.failedBlocks

\* C29: the receipts of an address are requested RECEIPT_TRIES times at most;
\* an address whose request rejects that often has no block and no proof
\* requested, and the call returns what it returns for the other addresses alone.
C29_ReceiptFetchBounded ==
    history.returned =>
        \A i \in DOMAIN history.addresses :
            /\ history.requested[i].receipts <= RECEIPT_TRIES
            /\ history.fails[history.addresses[i]] >= RECEIPT_TRIES =>
                  /\ history.requested[i].receipts = RECEIPT_TRIES
                  /\ history.requested[i].blocks = <<>>
                  /\ history.requested[i].proofs = <<>>
                  /\ history.result =
                        TransactionHistory(history.chain, RemoveAt(history.addresses, i),
                                           history.known, history.fromHeight, history.fails,
                                           history.failedBlocks, history.failedProofs)

\* the receipts of the first address, which has some, are refused for good; the
\* second address has a new and a removed entry
C29_Witness ==
    /\ history.returned
    /\ Len(history.addresses) = 2
    /\ history.fails[history.addresses[1]] > RECEIPT_TRIES
    /\ history.fails[history.addresses[2]] = RECEIPT_TRIES - 1
    /\ Fetched(history.addresses[1]) # <<>>
    /\ history.result.newTransactions # <<>>
    /\ history.result.removedTransactions # <<>>

\* the receipts of the second address are refused for good; the first address
\* has a new and an unresolved entry
C29_WitnessUnresolved ==
    /\ history.returned
    /\ Len(history.addresses) = 2
    /\ history.fails[history.addresses[2]] = RECEIPT_TRIES
    /\ history.fails[history.addresses[1]] = 0
    /\ Fetched(history.addresses[2]) # <<>>
    /\ history.result.newTransactions # <<>>
    /\ history.result.unresolvedTransactions # <<>>

\* C31 (refuted by SpecHistory): newTransactions holds no transaction of a
\* requested address whose hash the caller's knownReceipts for that address
\* holds with the block hash of the transaction.
C31_NoKnownPairReturned ==
    history.returned =>
        \A i \in DOMAIN history.addresses :
            \A j \in DOMAIN history.result.newTransactions :
                LET t == history.result.newTransactions[j]
                IN history.addresses[i] \in history.chain[t.hash].parties =>
                       history.known[history.addresses[i]][t.hash] # t.blockHash

\* C32 (refuted by SpecHistoryFailures): of every requested address whose
\* receipts were fetched, every receipt that passes the filter has its
\* transaction in newTransactions or is itself in unresolvedTransactions.
C32_FilteredReceiptsAccounted ==
    history.returned =>
        \A i \in DOMAIN history.addresses :
            history.fails[history.addresses[i]] < RECEIPT_TRIES =>
                \A k \in DOMAIN Fetched(history.addresses[i]) :
                    LET r == Fetched(history.addresses[i])[k]
                    IN Unknown(history.addresses[i], r) =>
                           \/ r.transactionHash \in NewHashes
                           \/ \E u \in DOMAIN history.result.unresolvedTransactions :
                                  history.result.unresolvedTransactions[u] = r

\* C34: a retry of the account fetch that starts while consensus is lost awaits
\* a gate instance that is not resolved, and a retry that awaits the current
\* gate instance queries the runtime only while consensus is established.
C34_RetryAwaitsGate ==
    [][\A i \in DOMAIN ops :
          /\ (GetAccountsRetry(i) /\ ~established) => ~GateResolved(ops'[i].gate)
          /\ (/\ GetAccounts(i) \/ GetAccountsFailure(i)
              /\ ops[i].stackHeight > 0
              /\ ops[i].gate = consensusEstablished) => established
    ]_vars

\* consensus was lost after a failed fetch; the retry has started and waits
C34_Witness ==
    \E i \in DOMAIN ops :
        /\ ops[i].pc = "gate"
        /\ ops[i].stackHeight > 0
        /\ lastConsensusEvent = "lost"
        /\ ops[i].gate = consensusEstablished
        /\ ~GateResolved(ops[i].gate)

\* ---------------------------------------------------------------- send loop
\* C26: when the runtime reports a submission as INVALIDATED, relayTransaction
\* throws: that report is the last one and the transaction is not handed to the
\* runtime again, in NanoApi.ts and in part_005 alike.
C26_InvalidatedThrows ==
    \A i \in DOMAIN sending.reported :
        sending.reported[i] = "invalidated" =>
            /\ i = Len(sending.reported)
            /\ sending.pc = "thrown"
            /\ sending.handed = i

\* the second submission was reported INVALIDATED and the call has thrown
C26_Witness ==
    /\ sending.pc = "thrown"
    /\ sending.reported = <<"new", "invalidated">>
    /\ sending.handed = 2

\* C28 (refuted by SpecSend): in part_005 the transaction is handed to the runtime
\* at most three times, and not again after the first submission that was
\* reported PENDING or MINED.
C28_StopsAfterPendingOrMined ==
    sending.revision = "part_005" =>
        /\ sending.handed <= SEND_ATTEMPTS
        /\ \A i \in DOMAIN sending.reported :
              sending.reported[i] \in {"pending", "mined"} => sending.handed = i

\* ------------------------------------------------------ transaction builder
\* the payload of the input as passed in: a string or a byte array that is not empty
Payload(obj) == obj.extraData.type # "undefined" /\ obj.extraData.length > 0

\* the variant of a built transaction, read from the transaction itself
VariantOf(tx) ==
    IF tx.format = "basic" THEN "basic"
    ELSE IF tx.senderType = "VESTING" THEN "vesting" ELSE "extended"

\* C23: an input with the vesting flag is built as a vesting transaction with or
\* without payload; otherwise an input with a non-empty payload is built as an
\* extended transaction carrying it; otherwise a basic transaction is built.
\* Every input yields a transaction.
C23_VariantByPrecedence ==
    built.pc = "relayed" =>
        /\ VariantOf(built.tx) =
              IF built.input.isVesting = "true" THEN "vesting"
              ELSE IF Payload(built.input) THEN "extended" ELSE "basic"
        /\ VariantOf(built.tx) = "extended" => built.tx.data.length > 0

\* a vesting-flagged input with a non-empty string payload was built
C23_Witness ==
    /\ built.pc = "relayed"
    /\ built.input.isVesting = "true"
    /\ built.input.extraData = [type |-> "string", length |-> 1]
    /\ VariantOf(built.tx) = "vesting"

\* C24 (refuted by SpecBuilder): the sender, recipient, value, fee and
\* validity-start height read back from the built transaction equal those of the
\* input object, for each variant.
C24_BuilderRoundTrip ==
    built.pc = "relayed" =>
        /\ ToUserFriendlyAddress(built.tx.sender) = built.input.sender
        /\ ToUserFriendlyAddress(built.tx.recipient) = built.input.recipient
        /\ SatoshisToCoins(built.tx.value) = built.input.value
        /\ SatoshisToCoins(built.tx.fee) = built.input.fee
        /\ built.tx.validityStartHeight = built.input.validityStartHeight

\* ----------------------------------------------------------------- lifecycle
\* C25 (refuted by SpecLifecycle): when loading the runtime has failed,
\* 'nimiq-api-fail' was fired exactly once, 'nimiq-api-ready' never, and no call
\* has passed the initialization barrier; when it has succeeded,
\* 'nimiq-api-ready' was fired exactly once and 'nimiq-api-fail' never; no call
\* passes the barrier before 'nimiq-api-ready'.
C25_InitializationOutcome ==
    /\ startup.init \in {"importFailed", "loadFailed"} =>
          startup.fail = 1 /\ startup.ready = 0 /\ startup.proceeded = {}
    /\ startup.init = "initialized" => startup.ready = 1 /\ startup.fail = 0
    /\ startup.proceeded # {} => startup.init = "initialized" /\ startup.ready = 1

\* C27 (refuted by SpecLifecycle): once no call of connect() or disconnect() is
\* pending, a network is connected if and only if the last call made was connect().
C27_FollowsLastCall ==
    (startup.init = "initialized" /\ startup.calls = <<>> /\ startup.last # "none") =>
        (startup.connected # {} <=> startup.last = "connect")

\* ---------------------------------------------------------------- connectPico
\* C36 (refuted by SpecPico): a call of connectPico has adopted a head only after
\* at least three head announcements received during that call.
C36_HeadAdoptedAfterThree ==
    pico.currentHead # 0 => pico.adoptedAfter >= PICO_QUORUM

\* C37 (refuted by SpecPico): a call resolved with the peer-voted balances has
\* counted three accepted messages, and no two accepted messages reported
\* different balances for a requested address.
C37_NoResolveOverDisagreement ==
    pico.resolvedWith = "pico" =>
        /\ pico.receivedBalanceMsgCount >= PICO_QUORUM
        /\ \A a \in Range(pico.addresses) : Cardinality(pico.reported[a]) <= 1

\* C38 (refuted by SpecPico): one call of connectPico invokes connect() at most
\* once.
C38_FallbackAtMostOnce == pico.connects <= 1

\* ----------------------------------------------------------------- known head
\* the step is the end of a _headChanged call that got header h while the wrapper
\* held consensus to be established at its start
HeadChangedEnds(h) ==
    \/ HeadChanged(h) /\ established
    \/ EstablishedWithHead(h)
    \/ \E i \in 1..MaxHeadCalls : HeadChangedFetched(i, h)

\* C33: the heights of successive 'nimiq-head-change' notifications never
\* decrease and no header is notified twice in a row; a _headChanged call whose
\* head equals the known head or is lower than it fires nothing and starts no
\* recheck, in whatever order the calls awaiting the head block end.
C33_HeadNotificationsOrdered ==
    [][/\ \A n \in 2..Len(knownHead'.notified) :
             /\ knownHead'.notified[n].height >= knownHead'.notified[n - 1].height
             /\ knownHead'.notified[n] # knownHead'.notified[n - 1]
       /\ \A h \in Headers :
             (/\ HeadChangedEnds(h)
              /\ knownHead.knownHead # NoHeader
              /\ h = knownHead.knownHead \/ h.height < knownHead.knownHead.height)
                => /\ knownHead'.notified = knownHead.notified
                   /\ knownHead'.knownHead = knownHead.knownHead
                   /\ \A n \in DOMAIN out' :
                         out'[n].name \notin {"nimiq-head-change", "recheck"}
                   /\ ops' = ops
      ]_vars

\* a call that overtook an earlier one has ended with a head lower than the
\* known one, after two notifications
C33_Witness ==
    /\ knownHead.revision = "NanoApi.ts"
    /\ knownHead.overtaken
    /\ Len(knownHead.notified) = 2
    /\ knownHead.handled.height < knownHead.knownHead.height
    /\ knownHead.notified[2] = knownHead.knownHead

\* ------------------------------------------------------------- double connect
\* C35 (refuted by SpecGuardedConnect): whatever the interleaving of connect()
\* and connectPico() calls with the initialization and with the creation of the
\* consensus object, at most one consensus object is created and the runtime
\* event listeners are bound once.
C35_OneConsensusObject == startup.created <= 1

====
